---- MODULE Spec2Model ----
(***************************************************************************)
(* Finance tracker front end: the staged-import review pipeline of         *)
(* ImportModal (src/src/App.jsx), the TransactionsTab wiring that opens    *)
(* and closes it, the API client calls it makes, and the remote staging    *)
(* API those calls talk to.                                                *)
(*                                                                         *)
(* Every asynchronous handler is split at its awaits: the click issues a   *)
(* request (a record in `calls`), the server handles it or the request     *)
(* fails, and the continuation of the handler runs when the response is    *)
(* delivered.  User actions interleave freely with these steps.            *)
(***************************************************************************)
EXTENDS Integers, Sequences, FiniteSets, TLC

\* ------------------------------------------------------------------ bounds
MaxRows == 2        \* rows the server parses out of one statement (SpecReview)
MaxRowsFlow == 1    \* the same, in the many-session specification (Spec)
MaxBatches == 1     \* batches the server creates before it only rejects uploads
MaxAccts == 1       \* accounts of the user
MaxEdits == 1       \* row-update / bulk-update requests in flight at once
MaxFetch == 1       \* list / summary fetches of the Transactions tab in flight

\* JavaScript null (and the id no row or account has)
Null == 0
Truthy(x) == x # Null

AccountIds == 1..MaxAccts
BatchIds == 1..MaxBatches
Categories == {"Uncategorized", "Food"}
RowId(b, i) == (b - 1) * MaxRows + i
RowIds == 1..(MaxBatches * MaxRows)

\* --------------------------------------------------------------- variables
VARIABLES
  showImport,     \* TransactionsTab: the import modal is open
  txFetches,      \* TransactionsTab: fetchTxns requests in flight
  sumFetches,     \* TransactionsTab: fetchSummary requests in flight
  step,           \* ImportModal: 1=Upload, 2=Review, 3=Done
  file,           \* ImportModal: a file is selected
  sourceAccount,  \* ImportModal: the source account, Null when none
  loading,        \* ImportModal
  batchId,        \* ImportModal: Null or the batch under review
  staged,         \* ImportModal: the staged rows shown, a sequence
  result,         \* ImportModal: <<>> or <<the confirm response>>
  selected,       \* ImportModal: set of selected row ids
  editingId,      \* ImportModal: Null or the row being edited inline
  bulkCat,        \* ImportModal: "" or the category of the bulk panel
  showBulkPanel,  \* ImportModal
  toastMsg,       \* App: the notification shown
  calls,          \* requests in flight, each with the closure of its handler
  srvStaged,      \* server: batch id -> its staged rows
  srvCreated,     \* server: number of batches created so far
  srvTxns,        \* server: ids of the staged rows promoted to transactions
  hist            \* history: <<event, batch>> pairs, for the claims only

modalVars == <<step, file, sourceAccount, loading, batchId, staged, result,
               selected, editingId, bulkCat, showBulkPanel>>
tabVars == <<showImport, txFetches, sumFetches>>
srvVars == <<srvStaged, srvCreated, srvTxns>>
vars == <<tabVars, modalVars, toastMsg, calls, srvVars, hist>>

VARIABLES
  storedToken,    \* localStorage "ft_token": Null or a token
  apiToken,       \* api.token
  user,           \* App: Null or the logged-in user
  init,           \* App: the startup check has not finished (spinner shown)
  accounts,       \* App: the account list, a sequence
  authLoading,    \* AuthScreen: a login request is in flight
  authError       \* AuthScreen: "" or the error shown

authVars == <<storedToken, apiToken, user, init, accounts, authLoading, authError>>

VARIABLES
  filter,         \* AccountsTab: "All" or the account type shown
  txns,           \* TransactionsTab: the transactions of the page, a sequence
  fy,             \* TransactionsTab: the financial year selected
  month,          \* TransactionsTab: <<>> (whole year) or <<month index>>
  showModal,      \* TransactionsTab: the transaction form is open
  editTx,         \* TransactionsTab: <<>> or <<the transaction being edited>>
  form,           \* TransactionModal: the form fields
  saving          \* TransactionModal

viewVars == <<filter, txns, fy, month>>
formVars == <<showModal, editTx, form, saving>>

VARIABLES
  page,           \* TransactionsTab: the page shown
  total,          \* TransactionsTab: pagination.total of the last response
  listCalls,      \* TransactionsTab: the fetchTxns requests in flight, in the
                  \* order they were issued, each with the query it carries
  shownLatest,    \* history: the list shown answers the query issued last
  latestOk,       \* history: the request issued last was answered successfully
  srvTotal        \* server: number of transactions that match the tab's query

listVars == <<page, total, listCalls, shownLatest, latestOk, srvTotal>>

VARIABLES
  txSelected,     \* TransactionsTab: positions of the selected rows
  bulkCategory,   \* TransactionsTab: "" or the category of the re-categorize modal
  showBulk,       \* TransactionsTab: the re-categorize modal is open
  showAccModal,   \* AccountsTab: the account form is open
  editAcc,        \* AccountsTab: Null or the id of the account being edited
  accName,        \* AccountModal: form.account_name is filled in
  accSaving       \* AccountModal

crudVars == <<txSelected, bulkCategory, showBulk, showAccModal, editAcc, accName,
              accSaving>>

\* the state of the application outside the import modal
appVars == <<authVars, viewVars, formVars, listVars, crudVars>>
allVars == <<vars, appVars>>
\* everything the session code leaves alone
outsideAuth == <<tabVars, modalVars, toastMsg, srvVars, hist, viewVars, formVars,
                 listVars, crudVars>>

\* ------------------------------------------------------------------ toasts
NoToast == [message |-> "", type |-> ""]
\* toast(msg,type); the counts some messages interpolate are left out
Toast(msg, type) == [message |-> msg, type |-> type]

\* ------------------------------------------------------------- API client
\* What the caller's catch sees as e.message.  api.call rewrites a rejected
\* fetch into the cold-start advisory; importUpload calls fetch directly.
ErrMsg(kind, st) ==
  IF kind = "importUpload"
  THEN (IF st = "net" THEN "Failed to fetch" ELSE "Upload failed")
  ELSE (IF st = "net" THEN "Server waking up (~30s). Please retry."
        ELSE "Request failed")

NoUpd == [f |-> "", s |-> "", a |-> Null]
Call(kind, batch, ids, upd) ==
  [kind |-> kind, st |-> "sent", stale |-> FALSE, batch |-> batch,
   ids |-> ids, upd |-> upd, rows |-> <<>>, total |-> 0, imported |-> 0,
   skipped |-> 0]

EditCalls == {c \in calls : c.kind \in {"updateStaged", "updateStagedBulk"}}

\* ------------------------------------------------------------- staged rows
ApplyUpd(r, upd) ==
  CASE upd.f = "status" -> [r EXCEPT !.status = upd.s]
    [] upd.f = "suggested_category" -> [r EXCEPT !.cat = upd.s]
    [] upd.f = "suggested_debit_account_id" -> [r EXCEPT !.debit = upd.a]
    [] upd.f = "suggested_credit_account_id" -> [r EXCEPT !.credit = upd.a]
    [] OTHER -> r

\* prev.map(r => hit(r.id) ? {...r, ...updates} : r)
MapRows(rows, ids, upd) ==
  [i \in 1..Len(rows) |-> IF rows[i].id \in ids THEN ApplyUpd(rows[i], upd) ELSE rows[i]]

RECURSIVE FilterCount(_, _)
\* rows.filter(pred).length, pred given as the set of rows it accepts
FilterCount(rows, ok) ==
  IF rows = <<>> THEN 0
  ELSE (IF Head(rows) \in ok THEN 1 ELSE 0) + FilterCount(Tail(rows), ok)

RowsOf(rows) == {rows[i] : i \in 1..Len(rows)}
IsActive(r) == r.status # "rejected"
HasAccounts(r) == Truthy(r.debit) /\ Truthy(r.credit)

\* (mutant) the ready count forgets the status filter
WithAccountsAnyStatus(rows) ==
  FilterCount(rows, {r \in RowsOf(rows) : HasAccounts(r)})

ActiveCountOf(rows) == FilterCount(rows, {r \in RowsOf(rows) : IsActive(r)})
WithAccountsOf(rows) ==
  FilterCount(rows, {r \in RowsOf(rows) : IsActive(r) /\ HasAccounts(r)})

activeCount == ActiveCountOf(staged)
withAccounts == WithAccountsOf(staged)
ActiveIds == {r.id : r \in {x \in RowsOf(staged) : IsActive(x)}}

\* the years offered by the period selector
FYs == {2025, 2024, 2023, 2022, 2021, 2020}
\* getCurrentFY() at the time of the run: the latest year offered
CurrentFY == CHOOSE y \in FYs : \A z \in FYs : z <= y

EmptyForm == [amount |-> Null, debit_account_id |-> Null, credit_account_id |-> Null]

\* the rows of a page: limit=30 in the query, total>30 and Math.ceil(total/30)
\* in the pagination bar
PageSize == 30
\* transactions the server holds for the tab's query
MaxTotal == 31

\* TransactionsTab on its first page, no request in flight
ListIdle ==
  /\ page = 1
  /\ total = 0
  /\ listCalls = <<>>
  /\ shownLatest = FALSE
  /\ latestOk = FALSE
  /\ srvTotal = MaxTotal

\* nothing selected, the re-categorize modal and the account form closed
CrudIdle ==
  /\ txSelected = {}
  /\ bulkCategory = ""
  /\ showBulk = FALSE
  /\ showAccModal = FALSE
  /\ editAcc = Null
  /\ accName = FALSE
  /\ accSaving = FALSE

\* AccountsTab and TransactionsTab as mounted, nothing loaded
ViewsIdle ==
  /\ filter = "All"
  /\ txns = <<>>
  /\ fy = CurrentFY
  /\ month = <<>>
  /\ ListIdle
  /\ CrudIdle

\* the transaction form closed
FormIdle ==
  /\ showModal = FALSE
  /\ editTx = <<>>
  /\ form = EmptyForm
  /\ saving = FALSE

\* the application around the import modal: logged in, startup finished
LoggedInIdle ==
  /\ storedToken = 1
  /\ apiToken = 1
  /\ user = 1
  /\ init = FALSE
  /\ accounts = <<>>
  /\ authLoading = FALSE
  /\ authError = ""
  /\ ViewsIdle
  /\ FormIdle

\* -------------------------------------------------------------------- Init
\* TransactionsTab is mounted and its first fetches have been answered, the
\* import modal is closed, the server holds nothing.
Init ==
  /\ showImport = FALSE
  /\ txFetches = 0
  /\ sumFetches = 0
  /\ step = 1
  /\ file = FALSE
  /\ sourceAccount = Null
  /\ loading = FALSE
  /\ batchId = Null
  /\ staged = <<>>
  /\ result = <<>>
  /\ selected = {}
  /\ editingId = Null
  /\ bulkCat = ""
  /\ showBulkPanel = FALSE
  /\ toastMsg = NoToast
  /\ calls = {}
  /\ srvStaged = [b \in BatchIds |-> <<>>]
  /\ srvCreated = 0
  /\ srvTxns = {}
  /\ hist = {}
  /\ LoggedInIdle

\* ------------------------------------------------- TransactionsTab wiring
\* onClose={()=>setShowImport(false)}
TabOnClose == showImport' = FALSE /\ UNCHANGED <<txFetches, sumFetches>>

\* onSuccess={()=>{setShowImport(false);fetchTxns();fetchSummary()}}
TabOnSuccess ==
  /\ showImport' = FALSE
  /\ txFetches' = txFetches + 1
  /\ sumFetches' = sumFetches + 1

\* the import button of the tab; the modal's reset-on-open effect runs with it
OpenImport ==
  /\ ~showImport
  /\ showImport' = TRUE
  /\ step' = 1
  /\ file' = FALSE
  /\ sourceAccount' = Null
  /\ batchId' = Null
  /\ staged' = <<>>
  /\ result' = <<>>
  /\ selected' = {}
  /\ editingId' = Null
  /\ calls' = {[c EXCEPT !.stale = TRUE] : c \in calls}
  /\ UNCHANGED <<appVars, txFetches, sumFetches, loading, bulkCat, showBulkPanel,
                 toastMsg, srvVars, hist>>

\* a response to fetchTxns / fetchSummary arrives (its outcome is not modelled)
FetchTxnsDone ==
  /\ txFetches > 0
  /\ txFetches' = txFetches - 1
  /\ UNCHANGED <<appVars, showImport, sumFetches, modalVars, toastMsg, calls, srvVars, hist>>

FetchSummaryDone ==
  /\ sumFetches > 0
  /\ sumFetches' = sumFetches - 1
  /\ UNCHANGED <<appVars, showImport, txFetches, modalVars, toastMsg, calls, srvVars, hist>>

\* the Toast component's timer
ToastExpire ==
  /\ toastMsg # NoToast
  /\ toastMsg' = NoToast
  /\ UNCHANGED <<appVars, tabVars, modalVars, calls, srvVars, hist>>

\* ----------------------------------------------------- ImportModal, step 1
SelectFile ==
  /\ showImport /\ step = 1
  /\ ~file
  /\ file' = TRUE
  /\ UNCHANGED <<appVars, tabVars, step, sourceAccount, loading, batchId, staged, result,
                 selected, editingId, bulkCat, showBulkPanel, toastMsg, calls,
                 srvVars, hist>>

SelectSource ==
  /\ showImport /\ step = 1
  /\ \E a \in (AccountIds \cup {Null}) \ {sourceAccount} : sourceAccount' = a
  /\ UNCHANGED <<appVars, tabVars, step, file, loading, batchId, staged, result,
                 selected, editingId, bulkCat, showBulkPanel, toastMsg, calls,
                 srvVars, hist>>

\* disabled={!file||!sourceAccount} loading={loading}
UploadDisabled == ~file \/ ~Truthy(sourceAccount) \/ loading

handleUpload ==
  IF ~file
  THEN /\ toastMsg' = Toast("Select a file", "error")
       /\ UNCHANGED <<loading, calls>>
  ELSE IF ~Truthy(sourceAccount)
  THEN /\ toastMsg' = Toast("Select the source bank/CC account", "error")
       /\ UNCHANGED <<loading, calls>>
  ELSE /\ loading' = TRUE
       /\ calls' = calls \cup {Call("importUpload", Null, {}, NoUpd)}
       /\ UNCHANGED toastMsg

ClickUpload ==
  /\ showImport /\ step = 1
  /\ ~UploadDisabled
  /\ handleUpload
  /\ UNCHANGED <<appVars, tabVars, step, file, sourceAccount, batchId, staged, result,
                 selected, editingId, bulkCat, showBulkPanel, srvVars, hist>>

\* the Cancel button of the Upload step: onClick={onClose}
CancelUpload ==
  /\ showImport /\ step = 1
  /\ TabOnClose
  /\ UNCHANGED <<appVars, modalVars, toastMsg, calls, srvVars, hist>>

\* ------------------------------------------------ leaving the modal
\* api.clearStaged(batchId).catch(()=>{})
ClearStaged(b) ==
  /\ calls' = calls \cup {Call("clearStaged", b, {}, NoUpd)}
  /\ hist' = hist \cup {<<"clear", b>>} \cup
             (IF Truthy(b) THEN {<<"left", b>>} ELSE {})

\* Modal onClose (close button or backdrop click):
\* ()=>{if(batchId&&step===2){api.clearStaged(batchId).catch(()=>{})}onClose()}
ModalOnClose ==
  /\ showImport
  /\ IF Truthy(batchId) /\ step = 2
     THEN ClearStaged(batchId)
     ELSE UNCHANGED <<calls, hist>>
  /\ TabOnClose
  /\ UNCHANGED <<appVars, modalVars, toastMsg, srvVars>>

\* the Cancel button of the Review step:
\* ()=>{api.clearStaged(batchId).catch(()=>{});onClose()}
CancelReview ==
  /\ showImport /\ step = 2
  /\ ClearStaged(batchId)
  /\ TabOnClose
  /\ UNCHANGED <<appVars, modalVars, toastMsg, srvVars>>

\* the Done button, rendered when step===3&&result
ClickDone ==
  /\ showImport /\ step = 3 /\ result # <<>>
  /\ txFetches < MaxFetch /\ sumFetches < MaxFetch
  /\ TabOnSuccess
  /\ UNCHANGED <<appVars, modalVars, toastMsg, calls, srvVars, hist>>

\* ----------------------------------------------------- ImportModal, step 2
reviewFrame == <<tabVars, step, file, sourceAccount, loading, batchId, staged,
                 result, srvVars, hist>>

\* the checkbox of a row, rendered when the row is not rejected
\* toggleSel=(id)=>setSelected(p=>{const n=new Set(p);n.has(id)?n.delete(id):n.add(id);return n})
toggleSel(id) ==
  selected' = IF id \in selected THEN selected \ {id} ELSE selected \cup {id}

ToggleRow ==
  /\ showImport /\ step = 2
  /\ \E r \in RowsOf(staged) : ~(r.status = "rejected") /\ toggleSel(r.id)
  /\ UNCHANGED <<appVars, reviewFrame, editingId, bulkCat, showBulkPanel, toastMsg, calls>>

\* the select-all checkbox
selectAllActive ==
  LET active == SelectSeq(staged, LAMBDA r : r.status # "rejected")
  IN  IF Cardinality(selected) = Len(active)
      THEN selected' = {}
      ELSE selected' = {active[i].id : i \in 1..Len(active)}

ClickSelectAll ==
  /\ showImport /\ step = 2
  /\ selectAllActive
  /\ UNCHANGED <<appVars, reviewFrame, editingId, bulkCat, showBulkPanel, toastMsg, calls>>

\* the edit button of a row: setEditingId(isEditing?null:tx.id)
ClickEdit ==
  /\ showImport /\ step = 2
  /\ \E r \in RowsOf(staged) :
       /\ r.status # "rejected"
       /\ editingId' = IF editingId = r.id THEN Null ELSE r.id
  /\ UNCHANGED <<appVars, reviewFrame, selected, bulkCat, showBulkPanel, toastMsg, calls>>

\* updateRow up to its await: api.updateStaged(id,updates)
updateRow(id, upd) ==
  /\ Cardinality(EditCalls) < MaxEdits
  /\ calls' = calls \cup {Call("updateStaged", Null, {id}, upd)}

\* the reject button of a row, rendered when the row is not rejected
rejectRow(id) == updateRow(id, [f |-> "status", s |-> "rejected", a |-> Null])

ClickRejectRow ==
  /\ showImport /\ step = 2
  /\ \E r \in RowsOf(staged) : r.status # "rejected" /\ rejectRow(r.id)
  /\ UNCHANGED <<appVars, reviewFrame, selected, editingId, bulkCat, showBulkPanel, toastMsg>>

\* the inline category select of the row being edited
EditCategory ==
  /\ showImport /\ step = 2
  /\ \E r \in RowsOf(staged) : \E c \in Categories \ {r.cat} :
       /\ editingId = r.id
       /\ updateRow(r.id, [f |-> "suggested_category", s |-> c, a |-> Null])
  /\ UNCHANGED <<appVars, reviewFrame, selected, editingId, bulkCat, showBulkPanel, toastMsg>>

\* parseInt(e.target.value)||null of an option value (an account id, or the
\* empty option, here Null)
ParseIntOrNull(v) == IF Truthy(v) THEN v ELSE Null

\* the two inline account selects, rendered when isEditing&&!isRejected
EditAccount ==
  /\ showImport /\ step = 2
  /\ \E r \in RowsOf(staged) :
       /\ editingId = r.id /\ r.status # "rejected"
       /\ \/ \E v \in (AccountIds \cup {Null}) \ {r.debit} :
               updateRow(r.id, [f |-> "suggested_debit_account_id", s |-> "",
                                a |-> ParseIntOrNull(v)])
          \/ \E v \in (AccountIds \cup {Null}) \ {r.credit} :
               updateRow(r.id, [f |-> "suggested_credit_account_id", s |-> "",
                                a |-> ParseIntOrNull(v)])
  /\ UNCHANGED <<appVars, reviewFrame, selected, editingId, bulkCat, showBulkPanel, toastMsg>>

\* the Category button of the bulk bar, rendered when selected.size>0
ToggleBulkPanel ==
  /\ showImport /\ step = 2
  /\ Cardinality(selected) > 0
  /\ showBulkPanel' = ~showBulkPanel
  /\ UNCHANGED <<appVars, reviewFrame, selected, editingId, bulkCat, toastMsg, calls>>

\* the category select of the bulk panel
SetBulkCat ==
  /\ showImport /\ step = 2
  /\ showBulkPanel /\ Cardinality(selected) > 0
  /\ \E c \in (Categories \cup {""}) \ {bulkCat} : bulkCat' = c
  /\ UNCHANGED <<appVars, reviewFrame, selected, editingId, showBulkPanel, toastMsg, calls>>

\* (mutant) api.updateStagedBulk called once per selected id
updateStagedBulkPerId(upd) ==
  /\ Cardinality(EditCalls) < MaxEdits
  /\ \E id \in selected :
       calls' = calls \cup {Call("updateStagedBulk", Null, {id}, upd)}

\* api.updateStagedBulk([...selected],updates)
updateStagedBulk(upd) ==
  /\ Cardinality(EditCalls) < MaxEdits
  /\ calls' = calls \cup {Call("updateStagedBulk", Null, selected, upd)}

\* rejectSelected up to its await
rejectSelected ==
  IF Cardinality(selected) = 0
  THEN UNCHANGED calls
  ELSE updateStagedBulk([f |-> "status", s |-> "rejected", a |-> Null])

\* the Reject button of the bulk bar, rendered when selected.size>0
ClickRejectSelected ==
  /\ showImport /\ step = 2
  /\ Cardinality(selected) > 0
  /\ rejectSelected
  /\ UNCHANGED <<appVars, reviewFrame, selected, editingId, bulkCat, showBulkPanel, toastMsg>>

\* bulkCategoryApply up to its await
bulkCategoryApply ==
  IF bulkCat = "" \/ Cardinality(selected) = 0
  THEN UNCHANGED calls
  ELSE updateStagedBulk([f |-> "suggested_category", s |-> bulkCat, a |-> Null])

\* the Apply button of the bulk panel, disabled={!bulkCat}
ClickBulkApply ==
  /\ showImport /\ step = 2
  /\ showBulkPanel /\ Cardinality(selected) > 0
  /\ bulkCat # ""
  /\ bulkCategoryApply
  /\ UNCHANGED <<appVars, reviewFrame, selected, editingId, bulkCat, showBulkPanel, toastMsg>>

\* (mutant) the Confirm button without its disabled attribute
ConfirmDisabledLoadingOnly == loading

\* the Confirm button: disabled={withAccounts===0} loading={loading}
ConfirmDisabled == withAccounts = 0 \/ loading

\* handleConfirm up to its await: api.confirmImport(batchId)
handleConfirm ==
  /\ loading' = TRUE
  /\ calls' = calls \cup {Call("confirmImport", batchId, {}, NoUpd)}
  /\ hist' = hist \cup {<<"confirm", batchId>>}

ClickConfirm ==
  /\ showImport /\ step = 2
  /\ ~ConfirmDisabled
  /\ handleConfirm
  /\ UNCHANGED <<appVars, tabVars, step, file, sourceAccount, batchId, staged, result,
                 selected, editingId, bulkCat, showBulkPanel, toastMsg, srvVars>>

\* ------------------------------------------------------ the remote staging API
\* What a statement parses into: pending rows, each with or without suggested
\* accounts; the category the classifier suggests is taken to be the default one.
NewRow(id) ==
  [id : {id}, status : {"pending"}, debit : AccountIds \cup {Null},
   credit : AccountIds \cup {Null}, cat : {"Uncategorized"}]

ParsedRows(b, max) ==
  {rows \in UNION {[1..n -> UNION {NewRow(id) : id \in RowIds}] : n \in 0..max} :
     \A i \in DOMAIN rows : rows[i].id = RowId(b, i)}

Answer(c, d) == calls' = (calls \ {c}) \cup {d}

\* POST /import/upload -> {batch_id, total_parsed, ...}
SrvUploadOf(max) ==
  \E c \in calls :
    /\ c.kind = "importUpload" /\ c.st = "sent"
    /\ srvCreated < MaxBatches
    /\ LET b == srvCreated + 1 IN
       \E rows \in ParsedRows(b, max) :
         /\ srvStaged' = [srvStaged EXCEPT ![b] = rows]
         /\ srvCreated' = b
         /\ Answer(c, [c EXCEPT !.st = "ok", !.batch = b, !.total = Len(rows)])
    /\ UNCHANGED <<appVars, tabVars, modalVars, toastMsg, srvTxns, hist>>

SrvUpload == SrvUploadOf(MaxRows)
SrvUploadFlow == SrvUploadOf(MaxRowsFlow)

\* GET /import/staged?batch_id=
SrvGetStaged ==
  \E c \in calls :
    /\ c.kind = "getStaged" /\ c.st = "sent"
    /\ Answer(c, [c EXCEPT !.st = "ok", !.rows = srvStaged[c.batch]])
    /\ UNCHANGED <<appVars, tabVars, modalVars, toastMsg, srvVars, hist>>

\* PUT /import/staged/:id and PUT /import/staged-bulk {ids, updates}
SrvUpdate ==
  \E c \in calls :
    /\ c.kind \in {"updateStaged", "updateStagedBulk"} /\ c.st = "sent"
    /\ srvStaged' = [b \in BatchIds |-> MapRows(srvStaged[b], c.ids, c.upd)]
    /\ Answer(c, [c EXCEPT !.st = "ok"])
    /\ UNCHANGED <<appVars, tabVars, modalVars, toastMsg, srvCreated, srvTxns, hist>>

\* POST /import/confirm {batch_id} -> {imported, skipped, errors[]}: every
\* non-rejected row with both accounts becomes a transaction, the batch is cleared
SrvConfirm ==
  \E c \in calls :
    /\ c.kind = "confirmImport" /\ c.st = "sent"
    /\ c.batch \in BatchIds
    /\ LET rows == srvStaged[c.batch]
           good == {r \in RowsOf(rows) : r.status # "rejected" /\ r.debit # Null
                                          /\ r.credit # Null}
       IN  /\ srvTxns' = srvTxns \cup {r.id : r \in good}
           /\ srvStaged' = [srvStaged EXCEPT ![c.batch] = <<>>]
           /\ Answer(c, [c EXCEPT !.st = "ok", !.imported = Cardinality(good),
                                  !.skipped = Len(rows) - Cardinality(good)])
    /\ UNCHANGED <<appVars, tabVars, modalVars, toastMsg, srvCreated, hist>>

\* DELETE /import/staged?batch_id= ; without a batch id, every staged row
SrvClear ==
  \E c \in calls :
    /\ c.kind = "clearStaged" /\ c.st = "sent"
    /\ srvStaged' = [b \in BatchIds |->
                       IF c.batch = Null \/ c.batch = b THEN <<>> ELSE srvStaged[b]]
    /\ hist' = hist \cup {<<"cleared", c.batch>>}
    /\ Answer(c, [c EXCEPT !.st = "ok"])
    /\ UNCHANGED <<appVars, tabVars, modalVars, toastMsg, srvCreated, srvTxns>>

\* How an unanswered request can end for its caller: the fetch rejects (no
\* response), or the server answers non-2xx.  Neither changes the server, so a
\* failure is taken at the moment the caller's continuation sees it.
Outcomes(c) == IF c.st = "ok" THEN {"ok"} ELSE {"net", "srv"}

\* ------------------------------------------- the handlers after their awaits
\* handleUpload after `await api.importUpload(fd)`
UploadAnswered ==
  \E c \in calls : \E out \in Outcomes(c) :
    /\ c.kind = "importUpload"
    /\ IF out = "ok"
       THEN /\ batchId' = c.batch
            /\ Answer(c, [Call("getStaged", c.batch, {}, NoUpd)
                            EXCEPT !.stale = c.stale, !.total = c.total])
            /\ hist' = hist \cup {<<"uploaded", c.batch>>}
            /\ UNCHANGED <<loading, toastMsg>>
       ELSE /\ toastMsg' = Toast(ErrMsg(c.kind, out), "error")
            /\ loading' = FALSE
            /\ calls' = calls \ {c}
            /\ UNCHANGED <<batchId, hist>>
    /\ UNCHANGED <<appVars, tabVars, step, file, sourceAccount, staged, result, selected,
                   editingId, bulkCat, showBulkPanel, srvVars>>

\* (mutant) handleUpload with setStep(2) after the try/catch instead of inside it
StagedAnsweredStepAlways ==
  \E c \in calls : \E out \in Outcomes(c) :
    /\ c.kind = "getStaged"
    /\ IF out = "ok"
       THEN /\ staged' = c.rows
            /\ toastMsg' = Toast("Parsed transactions!", "success")
       ELSE /\ toastMsg' = Toast(ErrMsg(c.kind, out), "error")
            /\ UNCHANGED staged
    /\ step' = 2
    /\ loading' = FALSE
    /\ calls' = calls \ {c}
    /\ UNCHANGED <<appVars, tabVars, file, sourceAccount, batchId, result, selected,
                   editingId, bulkCat, showBulkPanel, srvVars, hist>>

\* handleUpload after `await api.getStaged(data.batch_id)`
StagedAnswered ==
  \E c \in calls : \E out \in Outcomes(c) :
    /\ c.kind = "getStaged"
    /\ IF out = "ok"
       THEN /\ staged' = c.rows
            /\ step' = 2
            /\ toastMsg' = Toast("Parsed transactions!", "success")
       ELSE /\ toastMsg' = Toast(ErrMsg(c.kind, out), "error")
            /\ UNCHANGED <<staged, step>>
    /\ loading' = FALSE
    /\ calls' = calls \ {c}
    /\ UNCHANGED <<appVars, tabVars, file, sourceAccount, batchId, result, selected,
                   editingId, bulkCat, showBulkPanel, srvVars, hist>>

\* updateRow after `await api.updateStaged(id,updates)`
UpdateAnswered ==
  \E c \in calls : \E out \in Outcomes(c) :
    /\ c.kind = "updateStaged"
    /\ IF out = "ok"
       THEN staged' = MapRows(staged, c.ids, c.upd) /\ UNCHANGED toastMsg
       ELSE toastMsg' = Toast(ErrMsg(c.kind, out), "error") /\ UNCHANGED staged
    /\ calls' = calls \ {c}
    /\ UNCHANGED <<appVars, tabVars, step, file, sourceAccount, loading, batchId, result,
                   selected, editingId, bulkCat, showBulkPanel, srvVars, hist>>

\* (mutant) rejectSelected / bulkCategoryApply that clear the selection in a
\* finally block instead of inside the try
BulkAnsweredClearsSelection ==
  \E c \in calls : \E out \in Outcomes(c) :
    /\ c.kind = "updateStagedBulk"
    /\ IF out = "ok"
       THEN /\ staged' = MapRows(staged, c.ids, c.upd)
            /\ IF c.upd.f = "status"
               THEN /\ toastMsg' = Toast("Rejected", "info")
                    /\ UNCHANGED <<bulkCat, showBulkPanel>>
               ELSE /\ bulkCat' = ""
                    /\ showBulkPanel' = FALSE
                    /\ toastMsg' = Toast("Updated", "success")
            /\ UNCHANGED hist
       ELSE /\ toastMsg' = Toast(ErrMsg(c.kind, out), "error")
            /\ hist' = hist \cup {<<"bulkFailed", batchId>>}
            /\ UNCHANGED <<staged, bulkCat, showBulkPanel>>
    /\ selected' = {}
    /\ calls' = calls \ {c}
    /\ UNCHANGED <<appVars, tabVars, step, file, sourceAccount, loading, batchId, result,
                   editingId, srvVars>>

\* rejectSelected / bulkCategoryApply after `await api.updateStagedBulk(...)`;
\* c.ids is the `selected` of the render that issued the call
BulkAnswered ==
  \E c \in calls : \E out \in Outcomes(c) :
    /\ c.kind = "updateStagedBulk"
    /\ IF out = "ok"
       THEN /\ staged' = MapRows(staged, c.ids, c.upd)
            /\ selected' = {}
            /\ IF c.upd.f = "status"
               THEN /\ toastMsg' = Toast("Rejected", "info")
                    /\ UNCHANGED <<bulkCat, showBulkPanel>>
               ELSE /\ bulkCat' = ""
                    /\ showBulkPanel' = FALSE
                    /\ toastMsg' = Toast("Updated", "success")
            /\ UNCHANGED hist
       ELSE /\ toastMsg' = Toast(ErrMsg(c.kind, out), "error")
            /\ hist' = hist \cup {<<"bulkFailed", batchId>>}
            /\ UNCHANGED <<staged, selected, bulkCat, showBulkPanel>>
    /\ calls' = calls \ {c}
    /\ UNCHANGED <<appVars, tabVars, step, file, sourceAccount, loading, batchId, result,
                   editingId, srvVars>>

\* handleConfirm after `await api.confirmImport(batchId)`
ConfirmAnswered ==
  \E c \in calls : \E out \in Outcomes(c) :
    /\ c.kind = "confirmImport"
    /\ IF out = "ok"
       THEN /\ result' = <<[imported |-> c.imported, skipped |-> c.skipped]>>
            /\ step' = 3
            /\ toastMsg' = Toast("Imported transactions!", "success")
            /\ hist' = hist \cup {<<"confirmed", c.batch>>}
       ELSE /\ toastMsg' = Toast(ErrMsg(c.kind, out), "error")
            /\ UNCHANGED <<result, step, hist>>
    /\ loading' = FALSE
    /\ calls' = calls \ {c}
    /\ UNCHANGED <<appVars, tabVars, file, sourceAccount, batchId, staged, selected,
                   editingId, bulkCat, showBulkPanel, srvVars>>

\* api.clearStaged(batchId).catch(()=>{}): the outcome is dropped
ClearAnswered ==
  \E c \in calls :
    /\ c.kind = "clearStaged"
    /\ calls' = calls \ {c}
    /\ UNCHANGED <<appVars, tabVars, modalVars, toastMsg, srvVars, hist>>

\* ------------------------------------------------------------ specifications
\* Any number of import sessions (the modal is opened, left and opened again, with
\* responses arriving late), statements of at most MaxRowsFlow rows, rows edited
\* and rejected one at a time.
Next ==
  \/ OpenImport
  \/ FetchTxnsDone
  \/ FetchSummaryDone
  \/ ToastExpire
  \/ SelectFile
  \/ SelectSource
  \/ ClickUpload
  \/ CancelUpload
  \/ ModalOnClose
  \/ CancelReview
  \/ ClickDone
  \/ ClickEdit
  \/ ClickRejectRow
  \/ EditCategory
  \/ EditAccount
  \/ ClickConfirm
  \/ SrvUploadFlow
  \/ SrvGetStaged
  \/ SrvUpdate
  \/ SrvConfirm
  \/ SrvClear
  \/ UploadAnswered
  \/ StagedAnswered
  \/ UpdateAnswered
  \/ ConfirmAnswered
  \/ ClearAnswered

Spec == Init /\ [][Next]_vars

\* One import session that stays in the modal: the modal has just been opened,
\* a statement of at most MaxRows rows is uploaded, and rows are selected,
\* rejected (one by one and in bulk) and re-categorized in bulk.  The inline
\* edits of a row are exercised in Spec.
InitReview ==
  /\ showImport = TRUE
  /\ txFetches = 0
  /\ sumFetches = 0
  /\ step = 1
  /\ file = FALSE
  /\ sourceAccount = Null
  /\ loading = FALSE
  /\ batchId = Null
  /\ staged = <<>>
  /\ result = <<>>
  /\ selected = {}
  /\ editingId = Null
  /\ bulkCat = ""
  /\ showBulkPanel = FALSE
  /\ toastMsg = NoToast
  /\ calls = {}
  /\ srvStaged = [b \in BatchIds |-> <<>>]
  /\ srvCreated = 0
  /\ srvTxns = {}
  /\ hist = {}
  /\ LoggedInIdle

NextReview ==
  \/ ToastExpire
  \/ SelectFile
  \/ SelectSource
  \/ ClickUpload
  \/ ToggleRow
  \/ ClickSelectAll
  \/ ClickRejectRow
  \/ ToggleBulkPanel
  \/ SetBulkCat
  \/ ClickRejectSelected
  \/ ClickBulkApply
  \/ SrvUpload
  \/ SrvGetStaged
  \/ SrvUpdate
  \/ UploadAnswered
  \/ StagedAnswered
  \/ UpdateAnswered
  \/ BulkAnswered

SpecReview == InitReview /\ [][NextReview]_vars

\* ------------------------------------------------------------ App: session
MaxRefresh == 1

Tokens == {1, 2}
\* the tokens the server accepts; login issues one of them
ValidTokens == {1}
Users == {1}
\* the account list the server returns
Account(t, b) == [account_type |-> t, calculated_balance |-> b, current_balance |-> Null]
SrvAccounts == <<Account("Asset", 1)>>

\* a request of the session code; `token` is api.token when api.call builds the
\* Authorization header
AuthCall(kind, origin, token) ==
  [kind |-> kind, st |-> "sent", origin |-> origin, token |-> token]

\* the server accepts a login, and any other request that carries a valid token
SrvAuth ==
  \E c \in calls :
    /\ c.kind \in {"login", "me", "getAccounts"}
    /\ c.st = "sent"
    /\ c.kind = "login" \/ c.token \in ValidTokens
    /\ calls' = (calls \ {c}) \cup {[c EXCEPT !.st = "ok"]}
    /\ UNCHANGED <<authVars, outsideAuth>>

\* the startup effect up to `await api.me()`
Startup ==
  /\ init /\ calls = {}
  /\ IF Truthy(storedToken)
     THEN /\ apiToken' = storedToken
          /\ calls' = {AuthCall("me", "startup", storedToken)}
          /\ UNCHANGED init
     ELSE /\ init' = FALSE
          /\ UNCHANGED <<apiToken, calls>>
  /\ UNCHANGED <<storedToken, user, accounts, authLoading, authError,
                 outsideAuth>>

\* the startup effect after `await api.me()`
StartupMeAnswered ==
  \E c \in calls : \E out \in Outcomes(c) :
    /\ c.kind = "me"
    /\ IF out = "ok"
       THEN /\ \E u \in Users : user' = u
            /\ calls' = (calls \ {c}) \cup {AuthCall("getAccounts", "startup", apiToken)}
            /\ UNCHANGED <<storedToken, apiToken, init>>
       ELSE /\ storedToken' = Null
            /\ apiToken' = Null
            /\ init' = FALSE
            /\ calls' = calls \ {c}
            /\ UNCHANGED user
    /\ UNCHANGED <<accounts, authLoading, authError,
                   outsideAuth>>

\* the startup effect after `await api.getAccounts()`, inside the same try
StartupAccountsAnswered ==
  \E c \in calls : \E out \in Outcomes(c) :
    /\ c.kind = "getAccounts" /\ c.origin = "startup"
    /\ IF out = "ok"
       THEN /\ accounts' = SrvAccounts
            /\ UNCHANGED <<storedToken, apiToken>>
       ELSE /\ storedToken' = Null
            /\ apiToken' = Null
            /\ UNCHANGED accounts
    /\ init' = FALSE
    /\ calls' = calls \ {c}
    /\ UNCHANGED <<user, authLoading, authError,
                   outsideAuth>>

\* AuthScreen.submit up to `await api.login(...)`
submit ==
  /\ ~init /\ user = Null
  /\ ~authLoading
  /\ authError' = ""
  /\ authLoading' = TRUE
  /\ calls' = calls \cup {AuthCall("login", "login", apiToken)}
  /\ UNCHANGED <<storedToken, apiToken, user, init, accounts,
                 outsideAuth>>

\* AuthScreen.submit after the await, with App.handleLogin up to its await
LoginAnswered ==
  \E c \in calls : \E out \in Outcomes(c) :
    /\ c.kind = "login"
    /\ IF out = "ok"
       THEN \E t \in ValidTokens : \E u \in Users :
              /\ apiToken' = t
              /\ storedToken' = t
              /\ user' = u
              /\ calls' = (calls \ {c}) \cup {AuthCall("getAccounts", "login", t)}
              /\ UNCHANGED authError
       ELSE /\ authError' = ErrMsg(c.kind, out)
            /\ calls' = calls \ {c}
            /\ UNCHANGED <<storedToken, apiToken, user>>
    /\ authLoading' = FALSE
    /\ UNCHANGED <<init, accounts, outsideAuth>>

\* App.handleLogin after `await api.getAccounts()`
LoginAccountsAnswered ==
  \E c \in calls : \E out \in Outcomes(c) :
    /\ c.kind = "getAccounts" /\ c.origin = "login"
    /\ IF out = "ok" THEN accounts' = SrvAccounts ELSE UNCHANGED accounts
    /\ calls' = calls \ {c}
    /\ UNCHANGED <<storedToken, apiToken, user, init, authLoading, authError,
                   outsideAuth>>

\* App.refreshAccounts, called by the tabs after a change, up to its await
refreshAccounts ==
  /\ ~init /\ user # Null
  /\ Cardinality({c \in calls : c.origin = "refresh"}) < MaxRefresh
  /\ calls' = calls \cup {AuthCall("getAccounts", "refresh", apiToken)}
  /\ UNCHANGED <<authVars, outsideAuth>>

\* App.refreshAccounts after the await: try{...setAccounts(a)}catch{}; the
\* server answers with one of `lists`
RefreshAnsweredOf(lists) ==
  \E c \in calls : \E out \in Outcomes(c) :
    /\ c.kind = "getAccounts" /\ c.origin = "refresh"
    /\ IF out = "ok" THEN \E l \in lists : accounts' = l ELSE UNCHANGED accounts
    /\ calls' = calls \ {c}
    /\ UNCHANGED <<storedToken, apiToken, user, init, authLoading, authError,
                   outsideAuth>>

RefreshAnswered == RefreshAnsweredOf({SrvAccounts})

\* App.handleLogout; the AuthScreen shown next is a fresh mount
handleLogout ==
  /\ ~init /\ user # Null
  /\ storedToken' = Null
  /\ apiToken' = Null
  /\ user' = Null
  /\ accounts' = <<>>
  /\ authLoading' = FALSE
  /\ authError' = ""
  /\ UNCHANGED <<init, calls, outsideAuth>>

\* The page is loaded with any content of the token storage; the import modal
\* stays closed.
InitAuth ==
  /\ storedToken \in {Null} \cup Tokens
  /\ apiToken = Null
  /\ user = Null
  /\ init = TRUE
  /\ accounts = <<>>
  /\ authLoading = FALSE
  /\ authError = ""
  /\ ViewsIdle
  /\ FormIdle
  /\ showImport = FALSE
  /\ txFetches = 0
  /\ sumFetches = 0
  /\ step = 1
  /\ file = FALSE
  /\ sourceAccount = Null
  /\ loading = FALSE
  /\ batchId = Null
  /\ staged = <<>>
  /\ result = <<>>
  /\ selected = {}
  /\ editingId = Null
  /\ bulkCat = ""
  /\ showBulkPanel = FALSE
  /\ toastMsg = NoToast
  /\ calls = {}
  /\ srvStaged = [b \in BatchIds |-> <<>>]
  /\ srvCreated = 0
  /\ srvTxns = {}
  /\ hist = {}

NextAuth ==
  \/ Startup
  \/ SrvAuth
  \/ StartupMeAnswered
  \/ StartupAccountsAnswered
  \/ submit
  \/ LoginAnswered
  \/ LoginAccountsAnswered
  \/ refreshAccounts
  \/ RefreshAnswered
  \/ handleLogout

SpecAuth == InitAuth /\ [][NextAuth]_allVars

\* ------------------------------------------------- TransactionsTab: period
MaxTxns == 1

MonthIdx == 0..11
AccountTypes == {"Asset", "Liability", "Income", "Expense", "Equity"}
TxAmounts == {900, 4500, 99999, 234567, 12345678}
Txn(d, c, a) == [debit_account_type |-> d, credit_account_type |-> c, amount |-> a]
TxnDomain == {Txn(d, c, a) : d \in AccountTypes, c \in AccountTypes, a \in TxAmounts}
\* the pages of transactions the server may return
TxnLists == UNION {[1..n -> TxnDomain] : n \in 0..MaxTxns}

\* String(n).padStart(2,"0"): the two digits of a month or day
Pad2(n) == <<n \div 10, n % 10>>
\* a date string `${year}-${mm}-${dd}`: the year and the two-digit fields
DateStr(year, mm, dd) == <<year, mm, dd>>

getFYRange(y) ==
  [start |-> DateStr(y, <<0, 4>>, <<0, 1>>), end |-> DateStr(y + 1, <<0, 3>>, <<3, 1>>)]

MONTHS == <<"Apr", "May", "Jun", "Jul", "Aug", "Sep", "Oct", "Nov", "Dec", "Jan",
            "Feb", "Mar">>
\* MONTHS[i], zero-based as in the source
MonthName(i) == MONTHS[i + 1]

\* (mutant) the calendar year changes one month late
getMonthRangeLateYear(y, monthIdx) ==
  LET year == IF monthIdx < 10 THEN y ELSE y + 1
      m == ((monthIdx + 3) % 12) + 1
      nm == IF m = 12 THEN 1 ELSE m + 1
      ny == IF m = 12 THEN year + 1 ELSE year
  IN [start |-> DateStr(year, Pad2(m), <<0, 1>>), end |-> DateStr(ny, Pad2(nm), <<0, 1>>)]

getMonthRange(y, monthIdx) ==
  LET year == IF monthIdx < 9 THEN y ELSE y + 1
      m == ((monthIdx + 3) % 12) + 1
      nm == IF m = 12 THEN 1 ELSE m + 1
      ny == IF m = 12 THEN year + 1 ELSE year
  IN [start |-> DateStr(year, Pad2(m), <<0, 1>>), end |-> DateStr(ny, Pad2(nm), <<0, 1>>)]

\* TransactionsTab.dateParams: the start_date and end_date of the requests
dateParams == IF month # <<>> THEN getMonthRange(fy, month[1]) ELSE getFYRange(fy)

\* ---- fmt: a formatted amount is the sequence of its characters, a unit or
\* a separator counting as one element
DigitChar(d) == <<"0", "1", "2", "3", "4", "5", "6", "7", "8", "9">>[d + 1]

RECURSIVE Digits(_)
Digits(n) == IF n < 10 THEN <<DigitChar(n)>> ELSE Digits(n \div 10) \o <<DigitChar(n % 10)>>

RECURSIVE Pow10(_)
Pow10(d) == IF d = 0 THEN 1 ELSE 10 * Pow10(d - 1)

\* the last d digits of n, zero-padded
RECURSIVE Decimals(_, _)
Decimals(n, d) == IF d = 0 THEN <<>> ELSE Decimals(n \div 10, d - 1) \o <<DigitChar(n % 10)>>

\* (num / unit).toFixed(d) for an integer num: rounded to d decimals (a tie,
\* which the binary representation decides, is rounded up)
ToFixed(num, unit, d) ==
  LET mag == IF num < 0 THEN 0 - num ELSE num
      scaled == (mag * Pow10(d) + unit \div 2) \div unit
  IN (IF num < 0 /\ scaled > 0 THEN <<"-">> ELSE <<>>)
       \o Digits(scaled \div Pow10(d)) \o <<".">> \o Decimals(scaled % Pow10(d), d)

\* num.toLocaleString("en-IN",{maximumFractionDigits:0}) for an integer below 1000
ToLocaleInt(num) ==
  IF num < 0 THEN <<"-">> \o Digits(0 - num) ELSE Digits(num)

\* fmt with the text `sep` between the number and the unit
fmtWith(n, sep) ==
  LET abs == IF n < 0 THEN 0 - n ELSE n
  IN IF abs >= 10000000 THEN ToFixed(n, 10000000, 2) \o sep \o <<"Cr">>
     ELSE IF abs >= 100000 THEN ToFixed(n, 100000, 2) \o sep \o <<"L">>
     ELSE IF abs >= 1000 THEN ToFixed(n, 1000, 1) \o sep \o <<"K">>
     ELSE ToLocaleInt(n)

\* fmt of the third revision: `${...toFixed(2)}Cr`
fmt(n) == fmtWith(n, <<>>)
\* fmt of the second revision: `${...toFixed(2)} Cr`
fmtV2(n) == fmtWith(n, <<" ">>)
\* fmt of the first revision: `${...toFixed(2)}Cr`
fmtV1(n) == fmtWith(n, <<>>)

\* the amount shown in the row of a transaction: ₹{fmt(tx.amount)}
AmountShown(tx) == fmt(tx.amount)
AmountShownV2(tx) == fmtV2(tx.amount)
AmountShownV1(tx) == fmtV1(tx.amount)

\* the row of a transaction: isExp, isInc, isTransfer and the sign shown
isExp(tx) == tx.debit_account_type = "Expense"
isInc(tx) == tx.credit_account_type = "Income"
isTransfer(tx) == ~isExp(tx) /\ ~isInc(tx)
sign(tx) == IF isExp(tx) THEN "-" ELSE IF isInc(tx) THEN "+" ELSE "<->"

\* periodTotals of the second revision: txns.forEach with two independent ifs
RECURSIVE periodTotals(_)
periodTotals(list) ==
  IF list = <<>> THEN [income |-> 0, expense |-> 0]
  ELSE LET tx == list[Len(list)]
           t == periodTotals(SubSeq(list, 1, Len(list) - 1))
       IN [income |-> IF isInc(tx) THEN t.income + tx.amount ELSE t.income,
           expense |-> IF isExp(tx) THEN t.expense + tx.amount ELSE t.expense]

\* ---- fetchTxns: every request in flight is kept with the query it carries
MaxList == 2        \* fetchTxns requests in flight when a page button is clicked
MaxDeleted == 2     \* transactions deleted in one run
MaxCalls == 1       \* create / update / delete requests of the tabs in flight

accFormVars == <<showAccModal, editAcc, accName, accSaving>>
bulkVars == <<txSelected, bulkCategory, showBulk>>

Min(a, b) == IF a < b THEN a ELSE b
Max(a, b) == IF a < b THEN b ELSE a

\* the parameters of a request: page and the period; `latest` marks the request
\* issued last
Query(p, y, m) == [page |-> p, fy |-> y, month |-> m, latest |-> TRUE]
\* the fetchTxns of the current render
CurrentQuery == Query(page, fy, month)

\* fetchTxns() up to its await, called once for each query of qs, in order
fetchTxns(qs) ==
  /\ txFetches' = txFetches + Len(qs)
  /\ listCalls' =
       [i \in 1..Len(listCalls) |-> [listCalls[i] EXCEPT !.latest = FALSE]]
       \o [i \in 1..Len(qs) |-> [qs[i] EXCEPT !.latest = (i = Len(qs))]]
  /\ shownLatest' = FALSE
  /\ latestOk' = FALSE

\* the effects that run when the period changed to (y, m): the effect on
\* [fetchTxns] with the page still shown, the effect on [fetchSummary], then
\* setPage(1);setSelected(new Set()) and, when that changed the page, the effect
\* on [fetchTxns] again
Refetch(y, m) ==
  /\ Len(listCalls) < MaxFetch /\ sumFetches < MaxFetch
  /\ fetchTxns(IF page = 1 THEN <<Query(1, y, m)>>
               ELSE <<Query(page, y, m), Query(1, y, m)>>)
  /\ sumFetches' = sumFetches + 1
  /\ page' = 1
  /\ txSelected' = {}

\* FYSelector: onChange of the year select
SelectFY ==
  /\ \E y \in FYs \ {fy} : fy' = y /\ Refetch(y, <<>>)
  /\ month' = <<>>
  /\ UNCHANGED <<filter, txns, total, srvTotal, bulkCategory, showBulk, accFormVars,
                 authVars, formVars, showImport, modalVars, toastMsg, calls,
                 srvVars, hist>>

\* FYSelector: the "All" button and the twelve month buttons
SelectMonth ==
  /\ \E m \in ({<<>>} \cup {<<i>> : i \in MonthIdx}) \ {month} :
       month' = m /\ Refetch(fy, m)
  /\ UNCHANGED <<filter, txns, fy, total, srvTotal, bulkCategory, showBulk,
                 accFormVars, authVars, formVars, showImport, modalVars, toastMsg,
                 calls, srvVars, hist>>

\* Math.ceil(total/30)
LastPage == (total + PageSize - 1) \div PageSize

\* the Next button of the pagination bar, rendered when total>30:
\* disabled={page>=Math.ceil(total/30)} onClick={()=>setPage(page+1)}; the effect
\* on [fetchTxns] runs with the new page
ClickNext ==
  /\ total > PageSize
  /\ ~(page >= LastPage)
  /\ Len(listCalls) < MaxList
  /\ page' = page + 1
  /\ fetchTxns(<<Query(page + 1, fy, month)>>)
  /\ UNCHANGED <<filter, txns, fy, month, total, srvTotal, crudVars, authVars,
                 formVars, showImport, sumFetches, modalVars, toastMsg, calls,
                 srvVars, hist>>

\* the Prev button: disabled={page<=1} onClick={()=>setPage(page-1)}
ClickPrev ==
  /\ total > PageSize
  /\ ~(page <= 1)
  /\ Len(listCalls) < MaxList
  /\ page' = page - 1
  /\ fetchTxns(<<Query(page - 1, fy, month)>>)
  /\ UNCHANGED <<filter, txns, fy, month, total, srvTotal, crudVars, authVars,
                 formVars, showImport, sumFetches, modalVars, toastMsg, calls,
                 srvVars, hist>>

\* rows the server has for page p
RowsOnPage(p) == Max(0, Min(PageSize, srvTotal - PageSize * (p - 1)))

\* fetchTxns after `await api.getTransactions(params)`: the responses arrive in
\* any order; the server answers with one of `lists` that fits on the page
TxnsAnsweredOf(lists) ==
  \E i \in 1..Len(listCalls) : \E out \in {"ok", "net", "srv"} :
    LET c == listCalls[i] IN
    /\ listCalls' = [j \in 1..(Len(listCalls) - 1) |->
                       IF j < i THEN listCalls[j] ELSE listCalls[j + 1]]
    /\ txFetches' = txFetches - 1
    /\ IF out = "ok"
       THEN /\ \E l \in {x \in lists : Len(x) <= RowsOnPage(c.page)} : txns' = l
            /\ total' = srvTotal
            /\ shownLatest' = c.latest
            /\ UNCHANGED toastMsg
       ELSE /\ toastMsg' = Toast(ErrMsg("getTransactions", out), "error")
            /\ UNCHANGED <<txns, total, shownLatest>>
    /\ latestOk' = IF c.latest THEN out = "ok" ELSE latestOk
    /\ UNCHANGED <<filter, fy, month, page, srvTotal, crudVars, authVars, formVars,
                   showImport, sumFetches, modalVars, calls, srvVars, hist>>

TxnsAnswered == TxnsAnsweredOf(TxnLists)

\* TransactionsTab is mounted with nothing loaded yet
InitTxns == Init

NextTxns ==
  \/ SelectFY
  \/ SelectMonth
  \/ TxnsAnswered
  \/ FetchSummaryDone
  \/ ToastExpire

SpecTxns == InitTxns /\ [][NextTxns]_allVars

\* ------------------------------------------- TransactionsTab: pages and rows
MaxRowsShown == 2   \* rows of a page the model keeps

\* the pages the server returns here: up to MaxRowsShown rows of one kind
PageLists ==
  {[i \in 1..n |-> Txn("Expense", "Asset", 900)] : n \in 0..MaxRowsShown}

PageAnswered == TxnsAnsweredOf(PageLists)

\* api.deleteTransaction(id), with the fetchTxns of the render the row's button
\* belongs to
DelCall(q) == [kind |-> "deleteTransaction", st |-> "sent", q |-> q]

\* handleDelete up to its await (the confirm dialog accepted)
handleDelete == calls' = calls \cup {DelCall(CurrentQuery)}

\* the delete button of a row
ClickDelete ==
  /\ Len(txns) > 0
  /\ ~showBulk /\ ~showModal /\ ~showAccModal
  /\ Cardinality(calls) < MaxCalls
  /\ Len(listCalls) < MaxFetch /\ sumFetches < MaxFetch
  /\ handleDelete
  /\ UNCHANGED <<appVars, tabVars, modalVars, toastMsg, srvVars, hist>>

\* DELETE /transactions/:id
SrvDeleteTx ==
  \E c \in calls :
    /\ c.kind = "deleteTransaction" /\ c.st = "sent"
    /\ srvTotal > MaxTotal - MaxDeleted
    /\ srvTotal' = srvTotal - 1
    /\ calls' = (calls \ {c}) \cup {[c EXCEPT !.st = "ok"]}
    /\ UNCHANGED <<authVars, viewVars, formVars, crudVars, page, total, listCalls,
                   shownLatest, latestOk, tabVars, modalVars, toastMsg, srvVars,
                   hist>>

\* handleDelete after the await: toast("Deleted","success");fetchTxns();fetchSummary()
DeleteAnswered ==
  \E c \in calls : \E out \in Outcomes(c) :
    /\ c.kind = "deleteTransaction"
    /\ IF out = "ok"
       THEN /\ toastMsg' = Toast("Deleted", "success")
            /\ fetchTxns(<<c.q>>)
            /\ sumFetches' = sumFetches + 1
       ELSE /\ toastMsg' = Toast(ErrMsg(c.kind, out), "error")
            /\ UNCHANGED <<txFetches, sumFetches, listCalls, shownLatest, latestOk>>
    /\ calls' = calls \ {c}
    /\ UNCHANGED <<authVars, viewVars, formVars, crudVars, page, total, srvTotal,
                   showImport, modalVars, srvVars, hist>>

\* TransactionsTab has just been mounted: its first fetchTxns and fetchSummary
\* are in flight
InitList ==
  /\ storedToken = 1
  /\ apiToken = 1
  /\ user = 1
  /\ init = FALSE
  /\ accounts = <<>>
  /\ authLoading = FALSE
  /\ authError = ""
  /\ filter = "All"
  /\ txns = <<>>
  /\ fy = CurrentFY
  /\ month = <<>>
  /\ page = 1
  /\ total = 0
  /\ listCalls = <<Query(1, CurrentFY, <<>>)>>
  /\ shownLatest = FALSE
  /\ latestOk = FALSE
  /\ srvTotal = MaxTotal
  /\ CrudIdle
  /\ FormIdle
  /\ showImport = FALSE
  /\ txFetches = 1
  /\ sumFetches = 1
  /\ step = 1
  /\ file = FALSE
  /\ sourceAccount = Null
  /\ loading = FALSE
  /\ batchId = Null
  /\ staged = <<>>
  /\ result = <<>>
  /\ selected = {}
  /\ editingId = Null
  /\ bulkCat = ""
  /\ showBulkPanel = FALSE
  /\ toastMsg = NoToast
  /\ calls = {}
  /\ srvStaged = [b \in BatchIds |-> <<>>]
  /\ srvCreated = 0
  /\ srvTxns = {}
  /\ hist = {}

NextList ==
  \/ SelectFY
  \/ ClickNext
  \/ ClickPrev
  \/ PageAnswered
  \/ ClickDelete
  \/ SrvDeleteTx
  \/ DeleteAnswered
  \/ FetchSummaryDone
  \/ ToastExpire

SpecList == InitList /\ [][NextList]_allVars

\* ------------------------------------------------ Dashboard and AccountsTab
MaxAccounts == 2
MaxBal == 2

Balances == (0 - MaxBal)..MaxBal
\* the account lists the server may return
AccountLists ==
  UNION {[1..n -> {Account(t, b) : t \in AccountTypes, b \in Balances}] :
           n \in 0..MaxAccounts}

Abs(x) == IF x < 0 THEN 0 - x ELSE x

\* parseFloat(a.calculated_balance||a.current_balance||0)
Bal(a) ==
  IF Truthy(a.calculated_balance) THEN a.calculated_balance
  ELSE IF Truthy(a.current_balance) THEN a.current_balance
  ELSE 0

\* totals[type] / hierarchy[type].total: accumulated by forEach in list order;
\* 0 stands for a missing entry, which the readers replace by 0
RECURSIVE totals(_, _)
totals(list, type) ==
  IF list = <<>> THEN 0
  ELSE LET a == list[Len(list)]
           t == totals(SubSeq(list, 1, Len(list) - 1), type)
       IN IF a.account_type = type THEN t + Bal(a) ELSE t

\* DashboardTab.netWorth
DashboardNetWorth == totals(accounts, "Asset") - Abs(totals(accounts, "Liability"))

\* AccountsTab: the accounts the hierarchy is built from
filtered ==
  IF filter = "All" THEN accounts
  ELSE SelectSeq(accounts, LAMBDA a : a.account_type = filter)

\* AccountsTab.netWorth (second and third revision)
AccountsNetWorth == totals(filtered, "Asset") - Abs(totals(filtered, "Liability"))

\* AccountsTab.netWorth (first revision)
AccountsNetWorthV1 == totals(accounts, "Asset") - totals(accounts, "Liability")

\* AccountsTab.fmtBal: the amount handed to fmtFull
fmtBal(bal, type) == IF type = "Liability" \/ type = "Income" THEN Abs(bal) ELSE bal

\* AccountsTab (second and third revision): the balance shown in an account's row
RowShown(a) == fmtBal(Bal(a), a.account_type)
\* ... and in the header of a type
TypeTotalShown(type) == fmtBal(totals(filtered, type), type)

\* AccountsTab (first revision): the row shows fmt(bal), the header the plain sum
RowShownV1(a) == Bal(a)
TypeTotalShownV1(type) == totals(accounts, type)

\* DashboardTab: the Assets and Liabilities tiles, the Total Income and Total
\* Expenses cards
DashboardShown(type) ==
  CASE type = "Asset" -> totals(accounts, "Asset")
    [] type = "Liability" -> Abs(totals(accounts, "Liability"))
    [] type = "Income" -> totals(accounts, "Income")
    [] type = "Expense" -> Abs(totals(accounts, "Expense"))

\* AccountsTab: the type filter buttons
setFilter ==
  /\ \E t \in {"All", "Asset", "Liability", "Income", "Expense"} \ {filter} :
       filter' = t
  /\ UNCHANGED <<txns, fy, month, authVars, formVars, listVars, crudVars, tabVars, modalVars,
                 toastMsg, calls, srvVars, hist>>

RefreshAnsweredAny == RefreshAnsweredOf(AccountLists)

\* logged in, the account list not loaded yet
InitAccounts == Init

NextAccounts ==
  \/ refreshAccounts
  \/ SrvAuth
  \/ RefreshAnsweredAny
  \/ setFilter

SpecAccounts == InitAccounts /\ [][NextAccounts]_allVars

\* ------------------------------------------------------- TransactionModal
\* account_id of an account: its place in the list returned by the server
AccountIdsOf(list) == 1..Len(list)

\* accounts.find(a=>a.account_type===type)?.account_id||""
FindOfType(type) ==
  LET found == {i \in AccountIdsOf(accounts) : accounts[i].account_type = type}
  IN IF found = {} THEN Null ELSE CHOOSE i \in found : \A j \in found : i <= j

\* the presets: <<dt, ct>>
presets == {<<"Expense", "Asset">>, <<"Asset", "Income">>, <<"Asset", "Asset">>,
            <<"Liability", "Asset">>}

\* the transactions a row's edit button may hand to the form
EditTxns ==
  {tx \in {[transaction_id |-> 1, amount |-> 1, debit_account_id |-> d,
             credit_account_id |-> c] : d \in 1..MaxAccounts, c \in 1..MaxAccounts} :
     tx.debit_account_id # tx.credit_account_id}

FormOf(tx) ==
  [amount |-> tx.amount, debit_account_id |-> tx.debit_account_id,
   credit_account_id |-> tx.credit_account_id]

\* a request of the transaction form
TxCall(kind, p) == [kind |-> kind, st |-> "sent", by |-> "form", payload |-> p]
SaveKinds == {"createTransaction", "updateTransaction"}

\* the Add buttons: setEditTx(null);setShowModal(true); the form's effect resets it
OpenAdd ==
  /\ ~showModal /\ ~showBulk /\ ~showAccModal
  /\ showModal' = TRUE
  /\ editTx' = <<>>
  /\ form' = EmptyForm
  /\ UNCHANGED <<saving, authVars, viewVars, listVars, crudVars, tabVars, modalVars, toastMsg, calls,
                 srvVars, hist>>

\* a row's edit button: setEditTx(tx);setShowModal(true); the effect loads the form
OpenEdit ==
  /\ ~showModal
  /\ \E tx \in EditTxns : editTx' = <<tx>> /\ form' = FormOf(tx)
  /\ showModal' = TRUE
  /\ UNCHANGED <<saving, authVars, viewVars, listVars, crudVars, tabVars, modalVars, toastMsg, calls,
                 srvVars, hist>>

\* onClose={()=>{setShowModal(false);setEditTx(null)}}: Cancel, X and backdrop
CloseForm ==
  /\ showModal
  /\ showModal' = FALSE
  /\ editTx' = <<>>
  /\ form' = EmptyForm
  /\ UNCHANGED <<saving, authVars, viewVars, listVars, crudVars, tabVars, modalVars, toastMsg, calls,
                 srvVars, hist>>

\* a preset button (shown when not editing)
ApplyPreset ==
  /\ showModal /\ editTx = <<>>
  /\ \E p \in presets :
       form' = [form EXCEPT !.debit_account_id = FindOfType(p[1]),
                            !.credit_account_id = FindOfType(p[2])]
  /\ UNCHANGED <<showModal, editTx, saving, authVars, viewVars, listVars, crudVars, tabVars, modalVars,
                 toastMsg, calls, srvVars, hist>>

SetAmount ==
  /\ showModal
  /\ \E a \in {Null, 1} \ {form.amount} : form' = [form EXCEPT !.amount = a]
  /\ UNCHANGED <<showModal, editTx, saving, authVars, viewVars, listVars, crudVars, tabVars, modalVars,
                 toastMsg, calls, srvVars, hist>>

\* the "To (Debit)" select
SelectDebit ==
  /\ showModal
  /\ \E v \in (AccountIdsOf(accounts) \cup {Null}) \ {form.debit_account_id} :
       form' = [form EXCEPT !.debit_account_id = v]
  /\ UNCHANGED <<showModal, editTx, saving, authVars, viewVars, listVars, crudVars, tabVars, modalVars,
                 toastMsg, calls, srvVars, hist>>

\* the "From (Credit)" select
SelectCredit ==
  /\ showModal
  /\ \E v \in (AccountIdsOf(accounts) \cup {Null}) \ {form.credit_account_id} :
       form' = [form EXCEPT !.credit_account_id = v]
  /\ UNCHANGED <<showModal, editTx, saving, authVars, viewVars, listVars, crudVars, tabVars, modalVars,
                 toastMsg, calls, srvVars, hist>>

\* TransactionModal.save up to its await
save ==
  IF ~Truthy(form.amount) \/ ~Truthy(form.debit_account_id)
       \/ ~Truthy(form.credit_account_id)
  THEN /\ toastMsg' = Toast("Fill: Amount, From, To", "error")
       /\ UNCHANGED <<saving, calls>>
  ELSE /\ saving' = TRUE
       /\ calls' = calls \cup
            {TxCall(IF editTx # <<>> THEN "updateTransaction" ELSE "createTransaction",
                    form)}
       /\ UNCHANGED toastMsg

\* the Add Transaction / Update button: loading={saving}
ClickSave ==
  /\ showModal /\ ~saving
  /\ Cardinality(calls) < MaxCalls
  /\ txFetches < MaxFetch /\ sumFetches < MaxFetch
  /\ save
  /\ UNCHANGED <<showModal, editTx, form, authVars, viewVars, listVars, crudVars, tabVars, modalVars,
                 srvVars, hist>>

\* the server stores the transaction; a new transaction may or may not match
\* the query of the tab
SrvSaveTx ==
  \E c \in calls :
    /\ c.kind \in SaveKinds /\ c.st = "sent"
    /\ calls' = (calls \ {c}) \cup {[c EXCEPT !.st = "ok"]}
    /\ IF c.kind = "createTransaction"
       THEN srvTotal' \in {srvTotal, Min(srvTotal + 1, MaxTotal)}
       ELSE UNCHANGED srvTotal
    /\ UNCHANGED <<authVars, viewVars, formVars, crudVars, page, total, listCalls,
                   shownLatest, latestOk, tabVars, modalVars, toastMsg, srvVars,
                   hist>>

\* TransactionModal.save after the await; onSave closes the form and calls
\* fetchTxns() and fetchSummary() (the form covers the tab, whose page and
\* period are those of the render the form was opened from)
SaveAnswered ==
  \E c \in calls : \E out \in Outcomes(c) :
    /\ c.kind \in SaveKinds /\ c.by = "form"
    /\ IF out = "ok"
       THEN /\ toastMsg' = Toast(IF c.kind = "updateTransaction" THEN "Updated"
                                 ELSE "Added", "success")
            /\ showModal' = FALSE
            /\ editTx' = <<>>
            /\ form' = EmptyForm
            /\ fetchTxns(<<CurrentQuery>>)
            /\ sumFetches' = sumFetches + 1
       ELSE /\ toastMsg' = Toast(ErrMsg(c.kind, out), "error")
            /\ UNCHANGED <<showModal, editTx, form, txFetches, sumFetches, listCalls,
                           shownLatest, latestOk>>
    /\ saving' = FALSE
    /\ calls' = calls \ {c}
    /\ UNCHANGED <<authVars, viewVars, crudVars, page, total, srvTotal, showImport,
                   modalVars, srvVars, hist>>

\* logged in with two accounts of any types, the form closed
InitForm ==
  /\ storedToken = 1
  /\ apiToken = 1
  /\ user = 1
  /\ init = FALSE
  /\ accounts \in [1..MaxAccounts -> {Account(t, 1) : t \in AccountTypes}]
  /\ authLoading = FALSE
  /\ authError = ""
  /\ ViewsIdle
  /\ FormIdle
  /\ showImport = FALSE
  /\ txFetches = 0
  /\ sumFetches = 0
  /\ step = 1
  /\ file = FALSE
  /\ sourceAccount = Null
  /\ loading = FALSE
  /\ batchId = Null
  /\ staged = <<>>
  /\ result = <<>>
  /\ selected = {}
  /\ editingId = Null
  /\ bulkCat = ""
  /\ showBulkPanel = FALSE
  /\ toastMsg = NoToast
  /\ calls = {}
  /\ srvStaged = [b \in BatchIds |-> <<>>]
  /\ srvCreated = 0
  /\ srvTxns = {}
  /\ hist = {}

NextForm ==
  \/ OpenAdd
  \/ OpenEdit
  \/ CloseForm
  \/ ApplyPreset
  \/ SetAmount
  \/ SelectDebit
  \/ SelectCredit
  \/ ClickSave
  \/ SrvSaveTx
  \/ SaveAnswered
  \/ PageAnswered
  \/ FetchSummaryDone
  \/ ToastExpire

SpecForm == InitForm /\ [][NextForm]_allVars

\* ------------------------------------- TransactionsTab: bulk re-categorize
\* the checkbox of a row: toggleSelect(tx.transaction_id); a row is named by its
\* position in the page
toggleSelect ==
  /\ ~showBulk /\ ~showModal /\ ~showAccModal
  /\ \E i \in 1..Len(txns) :
       txSelected' = IF i \in txSelected THEN txSelected \ {i} ELSE txSelected \cup {i}
  /\ UNCHANGED <<bulkCategory, showBulk, accFormVars, authVars, viewVars, formVars,
                 listVars, tabVars, modalVars, toastMsg, calls, srvVars, hist>>

\* the Re-categorize button of the bulk bar, rendered when selected.size>0
OpenBulk ==
  /\ Cardinality(txSelected) > 0
  /\ ~showBulk /\ ~showModal /\ ~showAccModal
  /\ showBulk' = TRUE
  /\ UNCHANGED <<txSelected, bulkCategory, accFormVars, authVars, viewVars, formVars,
                 listVars, tabVars, modalVars, toastMsg, calls, srvVars, hist>>

\* the category select of the re-categorize modal
SetBulkCategory ==
  /\ showBulk
  /\ \E c \in (Categories \cup {""}) \ {bulkCategory} : bulkCategory' = c
  /\ UNCHANGED <<txSelected, showBulk, accFormVars, authVars, viewVars, formVars,
                 listVars, tabVars, modalVars, toastMsg, calls, srvVars, hist>>

\* one api.updateTransaction(id,{category}) of the loop of handleBulkCategory:
\* `left` are the ids the loop has still to visit, `ok` its counter, `q` the
\* fetchTxns of the render the handler belongs to
BulkTxCall(id, left, ok, cat, q) ==
  [kind |-> "updateTransaction", st |-> "sent", by |-> "bulk",
   payload |-> [category |-> cat], id |-> id, left |-> left, ok |-> ok, q |-> q]

\* handleBulkCategory up to the first await of its loop
handleBulkCategory ==
  IF bulkCategory = "" \/ Cardinality(txSelected) = 0
  THEN UNCHANGED calls
  ELSE \E id \in txSelected :
         calls' = calls \cup
           {BulkTxCall(id, txSelected \ {id}, 0, bulkCategory, CurrentQuery)}

\* the Apply button of the re-categorize modal, disabled={!bulkCategory}
ClickBulkCategory ==
  /\ showBulk
  /\ bulkCategory # ""
  /\ Cardinality(calls) < MaxCalls
  /\ Len(listCalls) < MaxFetch
  /\ handleBulkCategory
  /\ UNCHANGED <<appVars, tabVars, modalVars, toastMsg, srvVars, hist>>

\* handleBulkCategory after an await of its loop: try{await ...;ok++}catch{}; the
\* next id, or after the last one
\* toast(...);setSelected(new Set());setShowBulk(false);setBulkCategory("");fetchTxns()
BulkTxAnswered ==
  \E c \in calls : \E out \in Outcomes(c) :
    /\ c.kind = "updateTransaction" /\ c.by = "bulk"
    /\ LET ok == IF out = "ok" THEN c.ok + 1 ELSE c.ok IN
       IF c.left # {}
       THEN /\ \E id \in c.left :
                 calls' = (calls \ {c}) \cup
                   {BulkTxCall(id, c.left \ {id}, ok, c.payload.category, c.q)}
            /\ UNCHANGED <<toastMsg, bulkVars, txFetches, listCalls, shownLatest,
                           latestOk>>
       ELSE /\ calls' = calls \ {c}
            /\ toastMsg' = Toast("Updated transactions", "success")
            /\ txSelected' = {}
            /\ showBulk' = FALSE
            /\ bulkCategory' = ""
            /\ fetchTxns(<<c.q>>)
    /\ UNCHANGED <<accFormVars, authVars, viewVars, formVars, page, total, srvTotal,
                   showImport, sumFetches, modalVars, srvVars, hist>>

\* ------------------------------------------- AccountsTab and AccountModal
AccKinds == {"createAccount", "updateAccount", "deleteAccount"}
AccCall(kind) == [kind |-> kind, st |-> "sent"]

\* the Add button: setEditAcc(null);setShowModal(true); the form's effect resets it
OpenAccAdd ==
  /\ ~showAccModal /\ ~showModal /\ ~showBulk
  /\ showAccModal' = TRUE
  /\ editAcc' = Null
  /\ accName' = FALSE
  /\ UNCHANGED <<accSaving, bulkVars, authVars, viewVars, formVars, listVars,
                 tabVars, modalVars, toastMsg, calls, srvVars, hist>>

\* the edit button of an account's row: setEditAcc(a);setShowModal(true); the
\* effect loads the account's name into the form
OpenAccEdit ==
  /\ ~showAccModal /\ ~showModal /\ ~showBulk
  /\ \E i \in AccountIdsOf(accounts) : editAcc' = i
  /\ showAccModal' = TRUE
  /\ accName' = TRUE
  /\ UNCHANGED <<accSaving, bulkVars, authVars, viewVars, formVars, listVars,
                 tabVars, modalVars, toastMsg, calls, srvVars, hist>>

\* the Account Name input is filled in or emptied
SetAccName ==
  /\ showAccModal
  /\ accName' = ~accName
  /\ UNCHANGED <<showAccModal, editAcc, accSaving, bulkVars, authVars, viewVars,
                 formVars, listVars, tabVars, modalVars, toastMsg, calls, srvVars,
                 hist>>

\* AccountModal.save up to its await
saveAccount ==
  IF ~accName
  THEN /\ toastMsg' = Toast("Name required", "error")
       /\ UNCHANGED <<accSaving, calls>>
  ELSE /\ accSaving' = TRUE
       /\ calls' = calls \cup
            {AccCall(IF Truthy(editAcc) THEN "updateAccount" ELSE "createAccount")}
       /\ UNCHANGED toastMsg

\* the Create / Update button: loading={saving}
ClickAccSave ==
  /\ showAccModal /\ ~accSaving
  /\ Cardinality(calls) < MaxCalls
  /\ saveAccount
  /\ UNCHANGED <<showAccModal, editAcc, accName, bulkVars, authVars, viewVars,
                 formVars, listVars, tabVars, modalVars, srvVars, hist>>

\* AccountsTab.handleDelete (first and second revision) up to its await, the
\* confirm dialog accepted
ClickAccDelete ==
  /\ ~showAccModal /\ ~showModal /\ ~showBulk
  /\ Len(accounts) > 0
  /\ Cardinality(calls) < MaxCalls
  /\ calls' = calls \cup {AccCall("deleteAccount")}
  /\ UNCHANGED <<appVars, tabVars, modalVars, toastMsg, srvVars, hist>>

\* the server stores or deletes the account
SrvAccount ==
  \E c \in calls :
    /\ c.kind \in AccKinds /\ c.st = "sent"
    /\ calls' = (calls \ {c}) \cup {[c EXCEPT !.st = "ok"]}
    /\ UNCHANGED <<appVars, tabVars, modalVars, toastMsg, srvVars, hist>>

\* AccountModal.save after the await; onSave closes the form and calls
\* refreshAccounts()
AccSaveAnswered ==
  \E c \in calls : \E out \in Outcomes(c) :
    /\ c.kind \in {"createAccount", "updateAccount"}
    /\ IF out = "ok"
       THEN /\ toastMsg' = Toast(IF c.kind = "updateAccount" THEN "Updated"
                                 ELSE "Created", "success")
            /\ showAccModal' = FALSE
            /\ editAcc' = Null
            /\ accName' = FALSE
            /\ calls' = (calls \ {c}) \cup {AuthCall("getAccounts", "refresh", apiToken)}
       ELSE /\ toastMsg' = Toast(ErrMsg(c.kind, out), "error")
            /\ calls' = calls \ {c}
            /\ UNCHANGED <<showAccModal, editAcc, accName>>
    /\ accSaving' = FALSE
    /\ UNCHANGED <<bulkVars, authVars, viewVars, formVars, listVars, tabVars,
                   modalVars, srvVars, hist>>

\* AccountsTab.handleDelete after the await: toast("Deleted","success");refreshAccounts()
AccDeleteAnswered ==
  \E c \in calls : \E out \in Outcomes(c) :
    /\ c.kind = "deleteAccount"
    /\ IF out = "ok"
       THEN /\ toastMsg' = Toast("Deleted", "success")
            /\ calls' = (calls \ {c}) \cup {AuthCall("getAccounts", "refresh", apiToken)}
       ELSE /\ toastMsg' = Toast(ErrMsg(c.kind, out), "error")
            /\ calls' = calls \ {c}
    /\ UNCHANGED <<appVars, tabVars, modalVars, srvVars, hist>>

\* the tabs with their lists loaded: one account, the first page of transactions
InitCrud ==
  /\ storedToken = 1
  /\ apiToken = 1
  /\ user = 1
  /\ init = FALSE
  /\ accounts = SrvAccounts
  /\ authLoading = FALSE
  /\ authError = ""
  /\ filter = "All"
  /\ txns \in {l \in PageLists : Len(l) = MaxRowsShown}
  /\ fy = CurrentFY
  /\ month = <<>>
  /\ page = 1
  /\ total = MaxTotal
  /\ listCalls = <<>>
  /\ shownLatest = TRUE
  /\ latestOk = TRUE
  /\ srvTotal = MaxTotal
  /\ CrudIdle
  /\ FormIdle
  /\ showImport = FALSE
  /\ txFetches = 0
  /\ sumFetches = 0
  /\ step = 1
  /\ file = FALSE
  /\ sourceAccount = Null
  /\ loading = FALSE
  /\ batchId = Null
  /\ staged = <<>>
  /\ result = <<>>
  /\ selected = {}
  /\ editingId = Null
  /\ bulkCat = ""
  /\ showBulkPanel = FALSE
  /\ toastMsg = NoToast
  /\ calls = {}
  /\ srvStaged = [b \in BatchIds |-> <<>>]
  /\ srvCreated = 0
  /\ srvTxns = {}
  /\ hist = {}

NextCrud ==
  \/ toggleSelect
  \/ OpenBulk
  \/ SetBulkCategory
  \/ ClickBulkCategory
  \/ BulkTxAnswered
  \/ ClickDelete
  \/ SrvDeleteTx
  \/ DeleteAnswered
  \/ OpenAdd
  \/ SetAmount
  \/ SelectDebit
  \/ SelectCredit
  \/ ClickSave
  \/ SrvSaveTx
  \/ SaveAnswered
  \/ PageAnswered
  \/ FetchSummaryDone
  \/ OpenAccAdd
  \/ OpenAccEdit
  \/ SetAccName
  \/ ClickAccSave
  \/ ClickAccDelete
  \/ SrvAccount
  \/ AccSaveAnswered
  \/ AccDeleteAnswered
  \/ SrvAuth
  \/ RefreshAnswered

SpecCrud == InitCrud /\ [][NextCrud]_allVars

\* ------------------------------------------------------------------ claims
Logged(e, b) == <<e, b>> \in hist
RowIdsOfBatch(b) == {RowId(b, i) : i \in 1..MaxRows}
Leaving == showImport /\ ~showImport'
IssuedNow(kind) == {c \in calls' \ calls : c.kind = kind /\ c.st = "sent" /\ ~c.stale}

\* C1: every batch a successful upload call returned has, once the modal is
\* closed or has been reset by re-opening, been named by a confirm request or
\* by a clear-staged request: no batch is left behind on the server.
C1_NoBatchLeftBehind ==
  \A b \in BatchIds :
    Logged("uploaded", b) =>
      \/ showImport /\ batchId = b
      \/ Logged("confirm", b)
      \/ Logged("clear", b)

\* C2: after the user left the Review step by Cancel or by closing the
\* modal, once no request is outstanding the server holds no staged row of the
\* batch and no transaction made from it (stated for the runs in which the
\* clear-staged request itself was answered successfully).
C2_CancelLeavesNothing ==
  \A b \in BatchIds :
    (calls = {} /\ Logged("left", b) /\ Logged("cleared", b)) =>
      /\ srvStaged[b] = <<>>
      /\ srvTxns \cap RowIdsOfBatch(b) = {}

\* C3: a clear-staged request is issued exactly when the modal is closed or
\* cancelled in the Review step with a batch; never from Upload or Done.
C3_ClearExactlyOnLeavingReview ==
  [][(IssuedNow("clearStaged") # {}) <=> (Leaving /\ step = 2 /\ batchId # Null)]_vars

\* C4: whenever the modal is dismissed from the Done step, the Transactions tab
\* refetches the transaction list and the period summary.
C4_DoneDismissRefetches ==
  [][(Leaving /\ step = 3) =>
       (txFetches' = txFetches + 1 /\ sumFetches' = sumFetches + 1)]_vars

\* C5: the step only moves Upload -> Review on the successful upload of the
\* current session, Review -> Done on the successful confirm of the current
\* session, or back to Upload when the modal is opened.
C5_StepTransitions ==
  [][step' # step =>
       \/ /\ step = 1 /\ step' = 2
          /\ \E c \in calls : c.kind = "getStaged" /\ c.st = "ok" /\ ~c.stale
                              /\ c \notin calls'
       \/ /\ step = 2 /\ step' = 3
          /\ \E c \in calls : c.kind = "confirmImport" /\ c.st = "ok" /\ ~c.stale
                              /\ c \notin calls'
       \/ step' = 1 /\ ~showImport /\ showImport']_vars

\* C6: handleUpload moves Upload -> Review only when the upload call and the
\* staged-rows fetch after it both succeeded; when either fails the step stays
\* Upload and the failure's message is shown as an error notification.
C6_UploadOutcome ==
  [][/\ (step # 2 /\ step' = 2) =>
          \E c \in calls : /\ c.kind = "getStaged" /\ c.st = "ok" /\ c \notin calls'
                           /\ Logged("uploaded", c.batch)
     /\ \A c \in calls :
          (/\ c.kind \in {"importUpload", "getStaged"}
           /\ c.st = "sent"
           /\ \A d \in calls' : d.kind # c.kind) =>
            /\ step = 1 /\ step' = 1
            /\ toastMsg' \in {Toast(ErrMsg(c.kind, o), "error") : o \in {"net", "srv"}}]_vars

\* the upload succeeded, the staged-rows fetch failed: still Upload, error shown
C6_Witness ==
  /\ showImport /\ step = 1 /\ batchId # Null
  /\ ~loading /\ calls = {}
  /\ toastMsg = Toast("Server waking up (~30s). Please retry.", "error")

ReadyIdx(rows) ==
  {i \in 1..Len(rows) : rows[i].status # "rejected" /\ rows[i].debit # Null
                        /\ rows[i].credit # Null}
ActiveIdx(rows) == {i \in 1..Len(rows) : rows[i].status # "rejected"}

\* the scenario of the specification: 10 rows, 2 rejected, 6 complete, 2 incomplete
ExampleRows ==
  [i \in 1..10 |->
     [id |-> i, status |-> IF i <= 2 THEN "rejected" ELSE "pending",
      debit |-> IF i <= 8 THEN 1 ELSE Null, credit |-> IF i <= 8 THEN 1 ELSE Null,
      cat |-> "Uncategorized"]]

RejectAnswered(c) ==
  /\ c.kind \in {"updateStaged", "updateStagedBulk"}
  /\ c.upd.f = "status" /\ c.upd.s = "rejected"
  /\ c.st = "ok"
  /\ c \notin calls'

\* C7: in every Review state the ready count is the number of non-rejected rows
\* with both suggested accounts (6 in the 10-row scenario); a reject, single or
\* bulk, takes its rows out of the active and ready counts and keeps every row
\* displayed.
C7_ReadyCount ==
  /\ [](/\ WithAccountsOf(ExampleRows) = 6
        /\ step = 2 => /\ withAccounts = Cardinality(ReadyIdx(staged))
                       /\ activeCount = Cardinality(ActiveIdx(staged)))
  /\ [][\A c \in calls : RejectAnswered(c) =>
          /\ Len(staged') = Len(staged)
          /\ \A i \in 1..Len(staged) :
               /\ staged'[i].id = staged[i].id
               /\ staged[i].id \in c.ids => staged'[i].status = "rejected"
          /\ activeCount' =
               Cardinality({i \in ActiveIdx(staged) : staged[i].id \notin c.ids})
          /\ withAccounts' =
               Cardinality({i \in ReadyIdx(staged) : staged[i].id \notin c.ids})]_vars

\* two rows shown, the first one rejected although complete, one ready row left
C7_Witness ==
  /\ step = 2 /\ Len(staged) = 2
  /\ staged[1].status = "rejected" /\ HasAccounts(staged[1])
  /\ activeCount = 1 /\ withAccounts = 1

\* C8: a confirm request is only issued from the Review step with at least one
\* ready row; with no ready row the Confirm action is disabled.
C8_ConfirmOnlyWhenReady ==
  /\ []((showImport /\ step = 2 /\ ReadyIdx(staged) = {}) => ~ENABLED ClickConfirm)
  /\ [][IssuedNow("confirmImport") # {} =>
          (showImport /\ step = 2 /\ ReadyIdx(staged) # {})]_vars

\* a confirm request of the current session is in flight
C8_Witness ==
  /\ step = 2 /\ ReadyIdx(staged) # {}
  /\ \E c \in calls : c.kind = "confirmImport" /\ c.st = "sent" /\ ~c.stale

\* C9: in every Review state no rejected row is a member of the selection.
C9_RejectedNeverSelected ==
  step = 2 => \A r \in RowsOf(staged) : r.status = "rejected" => r.id \notin selected

\* C10: select-all-active, invoked when not every non-rejected row is selected,
\* makes the selection exactly the set of non-rejected rows.
C10_SelectAllSelectsActive ==
  [][(ClickSelectAll /\ ~(ActiveIds \subseteq selected)) => selected' = ActiveIds]_vars

\* C11: on startup with a stored token, when the /auth/me check succeeded the
\* application finishes initialization logged in, with that token still in
\* storage and on the API client; when the check failed, both tokens are
\* cleared and no user is set (the login screen is shown).
C11_StartupRestoresOrClears ==
  [][(init /\ ~init') =>
       /\ \A c \in calls : (c.kind = "getAccounts" /\ c.origin = "startup") =>
            (user' # Null /\ storedToken' = c.token /\ apiToken' = c.token)
       /\ \A c \in calls : c.kind = "me" =>
            (user' = Null /\ storedToken' = Null /\ apiToken' = Null)]_allVars

\* C12: the persisted token is removed only by logout or by a failure of the
\* startup /auth/me check.
C12_TokenRemovedOnlyByLogoutOrMe ==
  [][(storedToken # Null /\ storedToken' = Null) =>
       \/ user # Null /\ user' = Null /\ ~init
       \/ \E c \in calls : c.kind = "me" /\ c \notin calls' /\ user' = Null]_allVars

\* C13: whenever a user is logged in, the API client's token is set and equals
\* the persisted token.
C13_LoggedInHasToken ==
  user # Null => (apiToken # Null /\ apiToken = storedToken)

\* C14: for every API operation, the statement upload included, a request that
\* failed at the network level is surfaced as the "server waking up" advisory:
\* whenever a failed request's message is shown, it is the advisory or the
\* server's error message, never the raw fetch error.
C14_NetworkFailureAdvisory ==
  [][\A c \in calls :
       (/\ c.st = "sent"
        /\ \A d \in calls' : d.kind # c.kind
        /\ toastMsg' # toastMsg) =>
         toastMsg'.message \in {"Server waking up (~30s). Please retry.",
                                "Request failed", "Upload failed"}]_vars

RECURSIVE SumAmounts(_)
SumAmounts(list) ==
  IF list = <<>> THEN 0
  ELSE list[Len(list)].amount + SumAmounts(SubSeq(list, 1, Len(list) - 1))

\* C15: every transaction shown is labelled expense iff its debit account is an
\* Expense account, income iff its credit account is an Income account, and
\* transfer otherwise, and the period totals count every transaction under at
\* most one of income and expense.
C15_ClassificationExclusive ==
  /\ \A i \in 1..Len(txns) :
       /\ sign(txns[i]) = "-" <=> txns[i].debit_account_type = "Expense"
       /\ sign(txns[i]) = "+" <=> txns[i].credit_account_type = "Income"
       /\ sign(txns[i]) = "<->" <=> (/\ txns[i].debit_account_type # "Expense"
                                     /\ txns[i].credit_account_type # "Income")
  /\ periodTotals(txns).income + periodTotals(txns).expense <= SumAmounts(txns)

TypeIdx(type) == {i \in 1..Len(accounts) : accounts[i].account_type = type}
RECURSIVE SumBal(_)
SumBal(idx) ==
  IF idx = {} THEN 0
  ELSE LET i == CHOOSE j \in idx : TRUE
       IN accounts[i].calculated_balance + SumBal(idx \ {i})
ExpectedNetWorth == SumBal(TypeIdx("Asset")) - Abs(SumBal(TypeIdx("Liability")))

\* C16: every displayed net worth (Dashboard, Accounts view, all revisions)
\* equals sum(Asset balances) - |sum(Liability balances)| over the full account
\* list, a value that does not depend on the order of the accounts.
C16_NetWorth ==
  /\ DashboardNetWorth = ExpectedNetWorth
  /\ AccountsNetWorth = ExpectedNetWorth
  /\ AccountsNetWorthV1 = ExpectedNetWorth

\* C17: every create or update transaction request sent by the transaction
\* form names two distinct accounts.
C17_SavedAccountsDistinct ==
  \A c \in calls :
    c.kind \in SaveKinds =>
      c.payload.debit_account_id # c.payload.credit_account_id

FY2024Range == [start |-> <<2024, <<0, 4>>, <<0, 1>>>>, end |-> <<2025, <<0, 3>>, <<3, 1>>>>]
Jan2025Range == [start |-> <<2025, <<0, 1>>, <<0, 1>>>>, end |-> <<2025, <<0, 2>>, <<0, 1>>>>]
Feb2025Range == [start |-> <<2025, <<0, 2>>, <<0, 1>>>>, end |-> <<2025, <<0, 3>>, <<0, 1>>>>]

\* C18 (as stated): with FY 2024 selected the period is [2024-04-01, 2025-03-31],
\* and with month index 10 selected, that month being January, it is
\* [2025-01-01, 2025-02-01).
C18_RangesAsStated ==
  /\ (fy = 2024 /\ month = <<>>) => dateParams = FY2024Range
  /\ (fy = 2024 /\ month = <<10>>) =>
       (MonthName(10) = "Jan" /\ dateParams = Jan2025Range)

\* C18 (amended): with FY 2024 selected the period is [2024-04-01, 2025-03-31];
\* January is month index 9 and gives [2025-01-01, 2025-02-01); month index 10
\* is February and gives [2025-02-01, 2025-03-01).
C18_Ranges ==
  /\ getFYRange(2024) = FY2024Range
  /\ getMonthRange(2024, 9) = Jan2025Range
  /\ (fy = 2024 /\ month = <<>>) => dateParams = FY2024Range
  /\ (fy = 2024 /\ month = <<9>>) =>
       (MonthName(9) = "Jan" /\ dateParams = Jan2025Range)
  /\ (fy = 2024 /\ month = <<10>>) =>
       (MonthName(10) = "Feb" /\ dateParams = Feb2025Range)

\* January of FY 2024 is selected
C18_Witness ==
  /\ fy = 2024 /\ month = <<9>>
  /\ dateParams.start = <<2025, <<0, 1>>, <<0, 1>>>>

\* the amount the claim expects for a stored amount of an account type
SignedForType(v, type) == IF type \in {"Liability", "Income"} THEN Abs(v) ELSE v

\* C19: wherever an account's balance or a per-type total is displayed,
\* Liability and Income amounts are shown as magnitudes, Asset and Expense
\* amounts with their stored sign.
C19_BalanceSign ==
  /\ \A i \in 1..Len(filtered) :
       RowShown(filtered[i]) =
         SignedForType(filtered[i].calculated_balance, filtered[i].account_type)
  /\ \A i \in 1..Len(accounts) :
       RowShownV1(accounts[i]) =
         SignedForType(accounts[i].calculated_balance, accounts[i].account_type)
  /\ \A t \in {"Asset", "Liability", "Income", "Expense"} :
       /\ TypeTotalShown(t) = SignedForType(SumBal(TypeIdx(t) \cap
            {i \in 1..Len(accounts) : filter \in {"All", t}}), t)
       /\ TypeTotalShownV1(t) = SignedForType(SumBal(TypeIdx(t)), t)
       /\ DashboardShown(t) = SignedForType(SumBal(TypeIdx(t)), t)

\* the text the claim gives for an amount
FmtAsStated(n) ==
  CASE n = 12345678 -> <<"1", ".", "2", "3", " ", "Cr">>
    [] n = 234567 -> <<"2", ".", "3", "5", " ", "L">>
    [] n = 4500 -> <<"4", ".", "5", " ", "K">>
    [] n = 900 -> <<"9", "0", "0">>
    [] n = 99999 -> <<"1", "0", "0", ".", "0", " ", "K">>

\* C20: every amount shown is formatted as the claim states (12,345,678 as
\* "1.23 Cr", 234,567 as "2.35 L", 4,500 as "4.5 K", 900 as "900"), in all
\* three revisions of fmt.
C20_FmtAsStated ==
  \A i \in 1..Len(txns) :
    /\ AmountShown(txns[i]) = FmtAsStated(txns[i].amount)
    /\ AmountShownV2(txns[i]) = FmtAsStated(txns[i].amount)
    /\ AmountShownV1(txns[i]) = FmtAsStated(txns[i].amount)

\* a fetchTxns request is issued by the step
ListFetchIssued ==
  /\ Len(listCalls') = Len(listCalls) + 1
  /\ listCalls'[Len(listCalls')].latest
  /\ txFetches' = txFetches + 1
\* a refreshAccounts request is issued by the step
AccountsFetchIssued ==
  \E d \in calls' \ calls : d.kind = "getAccounts" /\ d.origin = "refresh"
\* the step delivers the outcome of request c to its handler (a request the
\* server has not answered is delivered as a failure)
Delivered(c) == c \notin calls' /\ [c EXCEPT !.st = "ok"] \notin calls'
\* the step delivers the successful response c to its handler
DeliveredOk(c) == c.st = "ok" /\ Delivered(c)

\* The forms and row buttons of the two tabs: the step that delivers a successful
\* create, update or delete of a transaction issues a fetch of the transaction
\* list, and one of an account a fetch of the account list; inside the bulk
\* re-categorize loop the fetch is issued by the step that ends the loop, whatever
\* the outcome of its last update.  (Holds of SpecCrud.)
CrudMutationRefetches ==
  [][/\ \A c \in calls :
          (DeliveredOk(c) /\ c.kind \in SaveKinds \cup {"deleteTransaction"}) =>
             \/ ListFetchIssued
             \/ /\ c.kind = "updateTransaction" /\ c.by = "bulk" /\ c.left # {}
                /\ \E d \in calls' \ calls :
                     /\ d.kind = "updateTransaction" /\ d.by = "bulk"
                     /\ d.ok = c.ok + 1 /\ d.left \subseteq c.left /\ d.left # c.left
     /\ \A c \in calls :
          (/\ c.kind = "updateTransaction" /\ c.by = "bulk"
           /\ Delivered(c) /\ c.left = {}
           /\ (c.ok > 0 \/ c.st = "ok")) => ListFetchIssued
     /\ \A c \in calls :
          (DeliveredOk(c) /\ c.kind \in AccKinds) => AccountsFetchIssued]_allVars

\* C21: after every successful create, update or delete of a transaction the
\* Transactions tab issues a fresh fetch of its list; for the transactions an
\* import has created, the fetch is issued when the modal is left from Done.
C21_ImportedThenListFetched ==
  [][(showImport /\ step = 3 /\ result # <<>> /\ ~showImport') =>
       txFetches' > txFetches]_vars

\* the step delivers the failure of request c of the open modal to its handler
FailedNow(c) ==
  /\ c.st = "sent" /\ ~c.stale /\ showImport
  /\ c \notin calls'
  /\ \A d \in calls' : d.kind # c.kind

\* C22: a failing upload, staged-rows fetch, single-row update or confirm leaves
\* the import modal as it was before the operation started, apart from the
\* loading flag, and shows an error notification: the step that delivers the
\* failure changes none of the modal's fields, and the batch the operation itself
\* created is not the modal's batch afterwards.
C22_FailureRestoresPriorState ==
  [][\A c \in calls :
       (c.kind \in {"importUpload", "getStaged", "updateStaged", "confirmImport"}
        /\ FailedNow(c)) =>
          /\ toastMsg' \in {Toast(ErrMsg(c.kind, o), "error") : o \in {"net", "srv"}}
          /\ UNCHANGED <<step, file, sourceAccount, staged, result, selected>>
          /\ (c.kind = "getStaged" => batchId' # c.batch)]_vars

\* C23: the step that delivers the failure of a bulk re-categorize or bulk reject
\* leaves the staged rows and the selection as they are, so what earlier
\* operations did stays, and the notification shown is that failure's message.
C23_FailedBulkKeepsRows ==
  [][\A c \in calls :
       (c.kind = "updateStagedBulk" /\ c.st = "sent" /\ calls' = calls \ {c}) =>
          /\ UNCHANGED <<staged, selected>>
          /\ toastMsg' \in {Toast(ErrMsg(c.kind, o), "error") : o \in {"net", "srv"}}]_vars

\* a bulk re-categorize has failed after an earlier reject succeeded: the rejected
\* row, the selection and the open panel are still there, the error is shown
C23_Witness ==
  /\ step = 2 /\ calls = {}
  /\ \E r \in RowsOf(staged) : r.status = "rejected"
  /\ \E r \in RowsOf(staged) : r.status # "rejected" /\ r.id \in selected
  /\ showBulkPanel /\ bulkCat # ""
  /\ <<"bulkFailed", batchId>> \in hist
  /\ toastMsg = Toast("Request failed", "error")

\* the bulk requests the step issues
BulkIssued == {c \in calls' \ calls : c.kind = "updateStagedBulk" /\ c.st = "sent"}

\* C24: a bulk reject or a bulk re-categorize with a non-empty selection issues
\* exactly one updateStagedBulk request, which carries the ids of all selected
\* rows and one update payload (the status, or the chosen category); with an
\* empty selection neither handler issues a request.
C24_OneBulkRequest ==
  /\ [][ClickRejectSelected =>
          BulkIssued = {Call("updateStagedBulk", Null, selected,
                             [f |-> "status", s |-> "rejected", a |-> Null])}]_vars
  /\ [][ClickBulkApply =>
          BulkIssued = {Call("updateStagedBulk", Null, selected,
                             [f |-> "suggested_category", s |-> bulkCat, a |-> Null])}]_vars
  /\ [][BulkIssued # {} => (selected # {} /\ (ClickRejectSelected \/ ClickBulkApply))]_vars
  /\ [](selected = {} => ~ENABLED (rejectSelected /\ calls' # calls))
  /\ [](selected = {} => ~ENABLED (bulkCategoryApply /\ calls' # calls))

\* one bulk request for both rows of the statement is in flight
C24_Witness ==
  /\ step = 2 /\ Cardinality(selected) = 2
  /\ \E c \in calls : c.kind = "updateStagedBulk" /\ c.st = "sent" /\ c.ids = selected
  /\ Cardinality({c \in calls : c.kind = "updateStagedBulk"}) = 1

\* C25: whenever the modal shows the Review step, the batch id is non-null, so the
\* confirm and clear-staged requests issued from Review name a batch.
C25_ReviewHasBatch ==
  (showImport /\ step = 2) => batchId # Null

\* the requests of one batch that have not been delivered to their callers
Pending(kind, b) == {c \in calls : c.kind = kind /\ c.batch = b}

\* C26: once a confirm request has been issued for a batch, no clear-staged
\* request is issued for that batch while the confirm is in flight or after it
\* succeeded.
C26_NoClearAfterConfirm ==
  [][\A c \in IssuedNow("clearStaged") :
       /\ Pending("confirmImport", c.batch) = {}
       /\ <<"confirmed", c.batch>> \notin hist]_vars

\* C27: the net worth shown on the Accounts tab does not depend on the type
\* filter: choosing another filter, the account list being the same, leaves it
\* what it was.
C27_NetWorthIgnoresFilter ==
  [][(filter' # filter /\ accounts' = accounts) =>
       AccountsNetWorth' = AccountsNetWorth]_allVars

\* C28: once every list fetch has completed, the transactions displayed are the
\* response to the query issued last (that response having been successful),
\* whatever the order the responses arrived in.
C28_LatestQueryShown ==
  (listCalls = <<>> /\ latestOk) => shownLatest

\* C29: the page number is at least 1 and at most max(1, ceil(total/30)).
C29_PageInRange ==
  1 <= page /\ page <= Max(1, LastPage)

\* C30: once the startup check is over, in every state where no user is logged
\* in the account list is empty and the API client's token is null; a response
\* arriving after logout restores neither.
C30_LoggedOutIsClean ==
  (~init /\ user = Null) => (accounts = <<>> /\ apiToken = Null)

====
